---------------------------- MODULE Spec2Model ----------------------------
(***************************************************************************)
(* rdftab: RDF/XML triples -> thin rows -> thick rows -> `statements`      *)
(* table, and back to triples (round trip).  Model of src/src/main.rs.     *)
(*                                                                         *)
(* Strings are TLA+ strings (sequences of characters); JSON values         *)
(* (serde_json::Value) are tagged records:                                 *)
(*    [t |-> "String", v |-> "text"]                                       *)
(*    [t |-> "Array",  v |-> << value, ... >>]                             *)
(*    [t |-> "Object", v |-> [key |-> value]]   (serde Map = BTreeMap)     *)
(* An Option<String> is a sequence of length 0 (None) or 1 (Some).         *)
(***************************************************************************)
EXTENDS Integers, Sequences, FiniteSets, TLC

----------------------------------------------------------------------------
(* Characters and byte order of strings (str::cmp compares bytes). *)

Ascii ==
  "\n !\"#$%&'()*+,-./0123456789:;<=>?@ABCDEFGHIJKLMNOPQRSTUVWXYZ[\\]^_abcdefghijklmnopqrstuvwxyz{|}~"

Code ==
  [c \in {SubSeq(Ascii, i, i) : i \in 1..Len(Ascii)} |->
      CHOOSE i \in 1..Len(Ascii) : SubSeq(Ascii, i, i) = c]

\* the character at position i, "" behind the end
CharAt(s, i) == IF i \in 1..Len(s) THEN SubSeq(s, i, i) ELSE ""

RECURSIVE StrLessFrom(_, _, _)
StrLessFrom(a, b, i) ==
  IF i > Len(b) THEN FALSE
  ELSE IF i > Len(a) THEN TRUE
  ELSE IF CharAt(a, i) = CharAt(b, i) THEN StrLessFrom(a, b, i + 1)
  ELSE Code[CharAt(a, i)] < Code[CharAt(b, i)]

\* a < b in the byte order of str
StrLess(a, b) == StrLessFrom(a, b, 1)

StartsWith(s, p) == Len(p) <= Len(s) /\ SubSeq(s, 1, Len(p)) = p

EndsWith(s, p) == Len(p) <= Len(s) /\ SubSeq(s, Len(s) - Len(p) + 1, Len(s)) = p

Contains(s, p) == \E i \in 1..(Len(s) - Len(p) + 1) : SubSeq(s, i, i + Len(p) - 1) = p

DropFirst(s, n) == SubSeq(s, n + 1, Len(s))

\* str::replace: every non-overlapping occurrence, left to right
RECURSIVE Replace(_, _, _)
Replace(s, from, to) ==
  IF from = "" THEN (IF s = "" THEN to ELSE to \o CharAt(s, 1) \o Replace(DropFirst(s, 1), from, to))
  ELSE IF Len(s) < Len(from) THEN s
  ELSE IF StartsWith(s, from) THEN to \o Replace(DropFirst(s, Len(from)), from, to)
  ELSE CharAt(s, 1) \o Replace(DropFirst(s, 1), from, to)

\* str::split on a one-character separator
RECURSIVE SplitFrom(_, _, _, _)
SplitFrom(s, sep, i, cur) ==
  IF i > Len(s) THEN <<cur>>
  ELSE IF CharAt(s, i) = sep THEN <<cur>> \o SplitFrom(s, sep, i + 1, "")
  ELSE SplitFrom(s, sep, i + 1, cur \o CharAt(s, i))

Split(s, sep) == SplitFrom(s, sep, 1, "")

RECURSIVE TrimStartMatches(_, _)
TrimStartMatches(s, c) ==
  IF StartsWith(s, c) THEN TrimStartMatches(DropFirst(s, Len(c)), c) ELSE s

RECURSIVE TrimEndMatches(_, _)
TrimEndMatches(s, c) ==
  IF EndsWith(s, c) THEN TrimEndMatches(SubSeq(s, 1, Len(s) - Len(c)), c) ELSE s

\* the smallest string of a non-empty set, and the strings of a set in ascending order
MinStr(S) == CHOOSE x \in S : \A y \in S \ {x} : StrLess(x, y)

RECURSIVE SortedStrings(_)
SortedStrings(S) ==
  IF S = {} THEN <<>> ELSE LET m == MinStr(S) IN <<m>> \o SortedStrings(S \ {m})

Range(f) == {f[x] : x \in DOMAIN f}

----------------------------------------------------------------------------
(* serde_json values *)

None == <<>>
Some(s) == <<s>>

JString(s) == [t |-> "String", v |-> s]
JArray(a) == [t |-> "Array", v |-> a]
JObject(m) == [t |-> "Object", v |-> m]

IsString(j) == j.t = "String"
IsArray(j) == j.t = "Array"
IsObject(j) == j.t = "Object"

EmptyMap == [k \in {} |-> "" ]
MapPut(m, k, x) == [y \in DOMAIN m \cup {k} |-> IF y = k THEN x ELSE m[y]]
Has(m, k) == k \in DOMAIN m
\* keys of a serde Map in iteration order (BTreeMap: ascending)
Keys(m) == SortedStrings(DOMAIN m)

\* serde_json's escaping of a string's characters
RECURSIVE Escape(_)
Escape(s) ==
  IF s = "" THEN ""
  ELSE LET c == CharAt(s, 1) IN
       (IF c = "\"" THEN "\\\""
        ELSE IF c = "\\" THEN "\\\\"
        ELSE IF c = "\n" THEN "\\n"
        ELSE c) \o Escape(DropFirst(s, 1))

RECURSIVE to_string(_), ArrayToString(_, _), MapToString(_, _)
\* Value::to_string / Display: compact JSON, keys in map order
to_string(j) ==
  IF IsString(j) THEN "\"" \o Escape(j.v) \o "\""
  ELSE IF IsArray(j) THEN "[" \o ArrayToString(j.v, 1) \o "]"
  ELSE "{" \o MapToString(j.v, Keys(j.v)) \o "}"

ArrayToString(a, i) ==
  IF i > Len(a) THEN ""
  ELSE to_string(a[i]) \o (IF i < Len(a) THEN "," ELSE "") \o ArrayToString(a, i + 1)

MapToString(m, ks) ==
  IF ks = <<>> THEN ""
  ELSE "\"" \o Escape(Head(ks)) \o "\":" \o to_string(m[Head(ks)])
       \o (IF Len(ks) > 1 THEN "," ELSE "") \o MapToString(m, Tail(ks))

----------------------------------------------------------------------------
(* The prefix table and shorten *)

\* get_prefixes: the rows of the prefix table, longest base first
\* (ORDER BY length(base) DESC; rows of equal length keep the table's order)
RECURSIVE get_prefixes(_)
get_prefixes(table) ==
  IF table = <<>> THEN <<>>
  ELSE LET longest == CHOOSE i \in 1..Len(table) :
                         /\ \A j \in 1..Len(table) : Len(table[j].base) <= Len(table[i].base)
                         /\ \A j \in 1..(i - 1) : Len(table[j].base) < Len(table[i].base)
       IN <<table[longest]>>
          \o get_prefixes([j \in 1..(Len(table) - 1) |->
                              IF j < longest THEN table[j] ELSE table[j + 1]])

shorten(prefixes, iri) ==
  LET hits == {i \in 1..Len(prefixes) : StartsWith(iri, prefixes[i].base)} IN
  IF hits = {} THEN "<" \o iri \o ">"
  ELSE LET i == CHOOSE h \in hits : \A g \in hits : h <= g
       IN Replace(iri, prefixes[i].base, prefixes[i].prefix \o ":")

----------------------------------------------------------------------------
(* Thin rows.  A buffered row is <<subject, predicate, object, value,     *)
(* datatype, language>>; a thin row has the stanza in front (Rust row[k]   *)
(* is row[k + 1] here).                                                    *)

RECURSIVE thinifyFrom(_, _, _)
thinifyFrom(stanza_stack, i, stanza_name) ==
  IF i > Len(stanza_stack) THEN <<>>
  ELSE LET s == stanza_stack[i]
           name == IF stanza_name = "" /\ s[2] # None THEN s[2][1] ELSE stanza_name
       IN <<(<<Some(name)>> \o s)>> \o thinifyFrom(stanza_stack, i + 1, name)

\* a thinify that reads the predicate of each row when no stanza name is given
thinify_rereading(stanza_stack, stanza_name) ==
  [i \in 1..Len(stanza_stack) |->
     <<Some(IF stanza_name = "" /\ stanza_stack[i][2] # None
            THEN stanza_stack[i][2][1] ELSE stanza_name)>> \o stanza_stack[i]]

thinify(stanza_stack, stanza_name) == thinifyFrom(stanza_stack, 1, stanza_name)

\* Vec::resize_with(n, Default::default)
resize_with(row, n) == [i \in 1..n |-> IF i <= Len(row) THEN row[i] ELSE None]

get_cell_contents(c) == IF c = None THEN "" ELSE c[1]

\* a row2object_map that tests the language whether or not there is a datatype
row2object_map_both_tags(row) ==
  LET object == get_cell_contents(row[4])
      value == get_cell_contents(row[5])
      datatype == get_cell_contents(row[6])
      language == get_cell_contents(row[7])
      m == MapPut(EmptyMap, "value", JString(value))
      md == IF datatype # "" THEN MapPut(m, "datatype", JString(datatype)) ELSE m
  IN JObject(
       IF object # "" THEN MapPut(EmptyMap, "object", JString(object))
       ELSE IF language # "" THEN MapPut(md, "language", JString(language)) ELSE md)

row2object_map(row) ==
  LET object == get_cell_contents(row[4])
      value == get_cell_contents(row[5])
      datatype == get_cell_contents(row[6])
      language == get_cell_contents(row[7])
  IN JObject(
       IF object # "" THEN MapPut(EmptyMap, "object", JString(object))
       ELSE LET m == MapPut(EmptyMap, "value", JString(value)) IN
            IF datatype # "" THEN MapPut(m, "datatype", JString(datatype))
            ELSE IF language # "" THEN MapPut(m, "language", JString(language))
            ELSE m)

----------------------------------------------------------------------------
(* Subjectifier *)

\* the place of a new element in a list sorted by key: behind every element
\* whose key is not greater (slice::sort_by is stable)
RECURSIVE InsertByKey(_, _)
InsertByKey(sorted, e) ==
  IF sorted = <<>> THEN <<e>>
  ELSE IF StrLess(e.key, sorted[Len(sorted)].key)
       THEN Append(InsertByKey(SubSeq(sorted, 1, Len(sorted) - 1), e), sorted[Len(sorted)])
       ELSE Append(sorted, e)

RECURSIVE SortKeyed(_)
SortKeyed(keyed) ==
  IF keyed = <<>> THEN <<>>
  ELSE InsertByKey(SortKeyed(SubSeq(keyed, 1, Len(keyed) - 1)), keyed[Len(keyed)])

\* v.sort_by(|a, b| a.to_string().cmp(&b.to_string()))
sort_by_to_string(v) ==
  LET keyed == [i \in 1..Len(v) |-> [key |-> to_string(v[i]), val |-> v[i]]]
      sorted == SortKeyed(keyed)
  IN [i \in 1..Len(v) |-> sorted[i].val]

add_objects_and_sort(v, object_map) ==
  IF IsArray(v) THEN JArray(sort_by_to_string(Append(v.v, object_map))) ELSE v

RECURSIVE predicates_of(_, _, _, _)
\* the predicates map of one subject (main.rs 257-284)
predicates_of(thin_rows, subject_id, i, predicates) ==
  IF i > Len(thin_rows) THEN predicates
  ELSE LET row == thin_rows[i] IN
       IF subject_id # get_cell_contents(row[2])
       THEN predicates_of(thin_rows, subject_id, i + 1, predicates)
       ELSE LET object_map == row2object_map(row)
                predicate == get_cell_contents(row[3])
                next == IF Has(predicates, predicate)
                        THEN MapPut(predicates, predicate,
                                    add_objects_and_sort(predicates[predicate], object_map))
                        ELSE IF predicate # ""
                        THEN MapPut(predicates, predicate,
                                    add_objects_and_sort(JArray(<<>>), object_map))
                        ELSE predicates
            IN predicates_of(thin_rows, subject_id, i + 1, next)

\* the blank nodes a subject's rows refer to (main.rs 286-298)
dependencies_of(thin_rows, subject_id) ==
  {get_cell_contents(thin_rows[i][4]) :
     i \in {j \in 1..Len(thin_rows) :
              /\ get_cell_contents(thin_rows[j][2]) = subject_id
              /\ get_cell_contents(thin_rows[j][4]) # ""
              /\ StartsWith(get_cell_contents(thin_rows[j][4]), "_:")}}

\* thin_rows_to_subjects up to its call of work_through_dependencies
thin_rows_to_subjects(thin_rows) ==
  LET subject_ids == {get_cell_contents(thin_rows[i][2]) : i \in 1..Len(thin_rows)}
  IN [subjects |->
        [s \in subject_ids |-> JObject(predicates_of(thin_rows, s, 1, EmptyMap))],
      dependencies |->
        [s \in {d \in subject_ids : dependencies_of(thin_rows, d) # {}} |->
           dependencies_of(thin_rows, s)]]

----------------------------------------------------------------------------
(* BlankInliner: one iteration of the while loop of                       *)
(* work_through_dependencies.  st = [subjects, dependencies, handled].     *)

add_dependency(dependencies, subject_id, o) ==
  IF Has(dependencies, subject_id)
  THEN MapPut(dependencies, subject_id, dependencies[subject_id] \cup {o})
  ELSE MapPut(dependencies, subject_id, {o})

\* main.rs 340-377: one object of a predicate; returns the object and the state
inline_object(obj, st, subject_id, leaves) ==
  LET o == IF IsObject(obj) /\ Has(obj.v, "object") THEN obj.v["object"]
           ELSE JObject(EmptyMap)
  IN IF IsString(o) /\ StartsWith(o.v, "_:")
     THEN IF o.v \in leaves
          THEN LET val == IF Has(st.subjects, o.v) THEN st.subjects[o.v]
                          ELSE JObject(EmptyMap)
               IN IF IsObject(obj)
                  THEN [obj |-> JObject(MapPut(EmptyMap, "object", val)),
                        st |-> [st EXCEPT !.handled = @ \cup {o.v}]]
                  ELSE [obj |-> obj, st |-> st]
          ELSE [obj |-> obj,
                st |-> [st EXCEPT !.dependencies = add_dependency(@, subject_id, o.v)]]
     ELSE [obj |-> obj, st |-> st]

RECURSIVE inline_objects(_, _, _, _, _, _)
inline_objects(pred_objs, i, objects, st, subject_id, leaves) ==
  IF i > Len(pred_objs) THEN [objects |-> objects, st |-> st]
  ELSE LET r == inline_object(pred_objs[i], st, subject_id, leaves)
       IN inline_objects(pred_objs, i + 1, Append(objects, r.obj), r.st, subject_id, leaves)

RECURSIVE inline_predicates(_, _, _, _, _)
\* main.rs 331-385: the predicates of one subject, in key order
inline_predicates(keys, predicates, st, subject_id, leaves) ==
  IF keys = <<>> THEN st
  ELSE LET predicate == Head(keys)
           pred_objs == IF Has(predicates, predicate) /\ IsArray(predicates[predicate])
                        THEN predicates[predicate].v ELSE <<>>
           r == inline_objects(pred_objs, 1, <<>>, st, subject_id, leaves)
           predicates2 == MapPut(predicates, predicate, JArray(sort_by_to_string(r.objects)))
           st2 == [r.st EXCEPT !.subjects = MapPut(@, subject_id, JObject(predicates2))]
       IN inline_predicates(Tail(keys), predicates2, st2, subject_id, leaves)

RECURSIVE inline_subjects(_, _, _)
\* main.rs 324-386: every subject, in key order
inline_subjects(subject_ids, st, leaves) ==
  IF subject_ids = <<>> THEN st
  ELSE LET subject_id == Head(subject_ids)
           predicates == IF Has(st.subjects, subject_id) /\ IsObject(st.subjects[subject_id])
                         THEN st.subjects[subject_id].v ELSE EmptyMap
       IN inline_subjects(Tail(subject_ids),
                          inline_predicates(Keys(predicates), predicates, st, subject_id, leaves),
                          leaves)

\* a pass that leaves the handled subjects at the top level
work_through_dependencies_pass_keeping_handled(dependencies, subjects) ==
  LET leaves == {leaf \in DOMAIN subjects : leaf \notin DOMAIN dependencies}
      st == inline_subjects(Keys(subjects),
                            [subjects |-> subjects, dependencies |-> EmptyMap, handled |-> {}],
                            leaves)
  IN [subjects |-> st.subjects, dependencies |-> st.dependencies]

\* one pass of the loop: [subjects, dependencies] after it
work_through_dependencies_pass(dependencies, subjects) ==
  LET leaves == {leaf \in DOMAIN subjects : leaf \notin DOMAIN dependencies}
      st == inline_subjects(Keys(subjects),
                            [subjects |-> subjects, dependencies |-> EmptyMap, handled |-> {}],
                            leaves)
  IN [subjects |-> [s \in DOMAIN st.subjects \ st.handled |-> st.subjects[s]],
      dependencies |-> st.dependencies]

----------------------------------------------------------------------------
(* OverlayCollapser *)

\* Value::get(key): defined only on an Object that has the key
HasKey(j, k) == IsObject(j) /\ Has(j.v, k)

first_object(predicates, predicate) ==
  IF Has(predicates, predicate) /\ IsArray(predicates[predicate])
  THEN LET v == predicates[predicate].v
           found == {i \in 1..Len(v) : HasKey(v[i], "object") \/ HasKey(v[i], "value")}
       IN IF found = {} THEN JString("")
          ELSE LET obj == v[CHOOSE i \in found : \A j \in found : i <= j]
               IN IF HasKey(obj, "object") THEN obj.v["object"] ELSE obj.v["value"]
  ELSE JString("")

\* format!("{}", x).trim_start_matches("\"").trim_end_matches("\"")
trim(s) == TrimEndMatches(TrimStartMatches(s, "\""), "\"")

\* main.rs 207-235: one candidate object o of SubjectMap[subject][predicate];
\* cs is compressed_subjects
compress_matches(o, obj) ==
  LET o_obj == IF HasKey(o, "object") THEN trim(to_string(o.v["object"])) ELSE ""
      o_val == IF HasKey(o, "value") THEN trim(to_string(o.v["value"])) ELSE ""
  IN o_obj = obj \/ o_val = obj

compress_object(kind, subject_id, cs, o, obj) ==
  IF compress_matches(o, obj) /\ HasKey(JObject(cs), subject_id) /\ IsObject(cs[subject_id])
  THEN LET items == cs[subject_id].v
           annotations == IF HasKey(o, kind) /\ IsObject(o.v[kind]) THEN o.v[kind].v
                          ELSE EmptyMap
           annotations_for_key(key) ==
             (IF Has(annotations, key) /\ IsArray(annotations[key])
              THEN annotations[key].v ELSE <<>>)
             \o (IF IsArray(items[key]) THEN items[key].v ELSE <<>>)
           merged == [key \in DOMAIN annotations \cup DOMAIN items |->
                        IF key \in DOMAIN items THEN JArray(annotations_for_key(key))
                        ELSE annotations[key]]
       IN IF IsObject(o)
          THEN [o |-> JObject(MapPut(o.v, kind, JObject(merged))), removed |-> TRUE]
          ELSE [o |-> o, removed |-> FALSE]
  ELSE [o |-> o, removed |-> FALSE]

\* main.rs 141-152: the text of an overlay predicate's first object
overlay_text(preds, predicate_type) == trim(to_string(first_object(preds, predicate_type)))

\* a compress that leaves the overlay predicates on the annotating subject
compress_strip_nothing(compressed_subjects, subject_id, subject_type, predicate_type, object_type) ==
  compressed_subjects

\* main.rs 154-159: the overlay predicates and rdf:type leave the annotating subject
compress_strip(compressed_subjects, subject_id, subject_type, predicate_type, object_type) ==
  IF Has(compressed_subjects, subject_id) /\ IsObject(compressed_subjects[subject_id])
  THEN MapPut(compressed_subjects, subject_id,
         JObject([k \in DOMAIN compressed_subjects[subject_id].v
                          \ {subject_type, predicate_type, object_type, "rdf:type"} |->
                    compressed_subjects[subject_id].v[k]]))
  ELSE compressed_subjects

\* main.rs 161-165
alt_preds_of(subjects, subject) ==
  IF Has(subjects, subject) /\ IsObject(subjects[subject]) THEN subjects[subject].v
  ELSE EmptyMap

\* main.rs 166-168
compress_target_subject(cs, subject, alt_preds) ==
  IF ~Has(cs, subject) THEN MapPut(cs, subject, JObject(alt_preds)) ELSE cs

\* main.rs 171-181
compress_target_predicate(cs, subject, predicate, alt_preds) ==
  IF ~HasKey(cs[subject], predicate) /\ IsObject(cs[subject])
  THEN MapPut(cs, subject,
         JObject(MapPut(cs[subject].v, predicate,
                        IF Has(alt_preds, predicate) /\ IsObject(alt_preds[predicate])
                        THEN alt_preds[predicate] ELSE JObject(EmptyMap))))
  ELSE cs

\* main.rs 239-243, and the subject marked for removal (230)
compress_store(cs, remove, subject_id, subject, predicate, done) ==
  [compressed_subjects |->
     MapPut(cs, subject,
            JObject(MapPut(cs[subject].v, predicate,
                           JArray([i \in 1..Len(done) |-> done[i].o])))),
   remove |-> remove \cup (IF \E i \in 1..Len(done) : done[i].removed
                           THEN {subject_id} ELSE {})]

\* main.rs 183-244
compress_attach(kind, subject_id, cs, remove, subject, predicate, obj) ==
  IF HasKey(cs[subject], predicate) /\ IsArray(cs[subject].v[predicate])
  THEN compress_store(cs, remove, subject_id, subject, predicate,
         [i \in 1..Len(cs[subject].v[predicate].v) |->
            compress_object(kind, subject_id, cs, cs[subject].v[predicate].v[i], obj)])
  ELSE [compressed_subjects |-> cs, remove |-> remove]

compress_with(kind, subject_id, cs, remove, subject, predicate, obj, alt_preds) ==
  compress_attach(kind, subject_id,
                  compress_target_predicate(compress_target_subject(cs, subject, alt_preds),
                                            subject, predicate, alt_preds),
                  remove, subject, predicate, obj)

\* returns [compressed_subjects, remove]
compress(kind, subject_id, subjects, compressed_subjects, remove, preds, subject_type, predicate_type, object_type) ==
  compress_with(kind, subject_id,
                compress_strip(compressed_subjects, subject_id,
                               subject_type, predicate_type, object_type),
                remove,
                overlay_text(preds, subject_type),
                overlay_text(preds, predicate_type),
                overlay_text(preds, object_type),
                alt_preds_of(subjects, overlay_text(preds, subject_type)))

\* main.rs 409-421
annotate_owl(subject_id, subjects, st, preds) ==
  IF Has(preds, "owl:annotatedSource")
  THEN compress("annotations", subject_id, subjects, st.compressed_subjects, st.remove,
                preds, "owl:annotatedSource", "owl:annotatedProperty",
                "owl:annotatedTarget")
  ELSE st

\* main.rs 423-435
reify_rdf(subject_id, subjects, st, preds) ==
  IF Has(preds, "rdf:subject")
  THEN compress("metadata", subject_id, subjects, st.compressed_subjects, st.remove,
                preds, "rdf:subject", "rdf:predicate", "rdf:object")
  ELSE st

\* main.rs 405-407
keep_subject(subject_id, st, preds) ==
  IF ~Has(st.compressed_subjects, subject_id)
  THEN [st EXCEPT !.compressed_subjects = MapPut(@, subject_id, JObject(preds))]
  ELSE st

\* main.rs 397-436: one subject of the loop; st = [compressed_subjects, remove]
annotate_reify_subject(subject_id, subjects, st) ==
  reify_rdf(subject_id, subjects,
            annotate_owl(subject_id, subjects,
                         keep_subject(subject_id, st, alt_preds_of(subjects, subject_id)),
                         alt_preds_of(subjects, subject_id)),
            alt_preds_of(subjects, subject_id))

RECURSIVE annotate_reify_from(_, _, _)
annotate_reify_from(subject_ids, subjects, st) ==
  IF subject_ids = <<>> THEN st
  ELSE annotate_reify_from(Tail(subject_ids), subjects,
                           annotate_reify_subject(Head(subject_ids), subjects, st))

\* main.rs 438-443
remove_marked(st) ==
  [s \in DOMAIN st.compressed_subjects \ st.remove |-> st.compressed_subjects[s]]

annotate_reify(subjects) ==
  remove_marked(annotate_reify_from(Keys(subjects), subjects,
                                    [compressed_subjects |-> EmptyMap, remove |-> {}]))

----------------------------------------------------------------------------
(* ThickEmitter *)

\* main.rs 466-490: the thick row of one object
thick_row_of(subject_id, predicate, obj) ==
  LET result == IF IsObject(obj) THEN obj.v ELSE EmptyMap
      r2 == MapPut(MapPut(result, "subject", JString(subject_id)),
                   "predicate", JString(predicate))
  IN IF Has(r2, "object") /\ ~IsString(r2["object"])
     THEN MapPut(r2, "object", JString(to_string(r2["object"])))
     ELSE r2

RECURSIVE thick_rows_of_predicates(_, _, _)
thick_rows_of_predicates(subject_id, predicates, keys) ==
  IF keys = <<>> THEN <<>>
  ELSE LET objs == IF IsArray(predicates[Head(keys)]) THEN predicates[Head(keys)].v ELSE <<>>
       IN [i \in 1..Len(objs) |-> thick_row_of(subject_id, Head(keys), objs[i])]
          \o thick_rows_of_predicates(subject_id, predicates, Tail(keys))

RECURSIVE thick_rows_of_subjects(_, _)
thick_rows_of_subjects(subjects, subject_ids) ==
  IF subject_ids = <<>> THEN <<>>
  ELSE LET predicates == IF IsObject(subjects[Head(subject_ids)])
                         THEN subjects[Head(subject_ids)].v ELSE EmptyMap
       IN thick_rows_of_predicates(Head(subject_ids), predicates, Keys(predicates))
          \o thick_rows_of_subjects(subjects, Tail(subject_ids))

subjects_to_thick_rows(subjects) == thick_rows_of_subjects(subjects, Keys(subjects))

Columns == <<"subject", "predicate", "object", "value", "datatype", "language">>

RECURSIVE row_to_insert(_, _)
\* main.rs 1002-1015: the parameters of one INSERT
row_to_insert(t, i) ==
  IF i > Len(Columns) THEN <<>>
  ELSE (IF Has(t, Columns[i])
        THEN (IF IsString(t[Columns[i]]) THEN <<Some(t[Columns[i]].v)>> ELSE <<>>)
        ELSE <<None>>)
       \o row_to_insert(t, i + 1)

rows_to_insert(thick_rows) == [i \in 1..Len(thick_rows) |-> row_to_insert(thick_rows[i], 1)]

----------------------------------------------------------------------------
(* serde_json::from_str, for the values of the model (strings, arrays,     *)
(* objects).  A result is [ok, val, next]: next is the position behind the *)
(* value.                                                                  *)

Failed == [ok |-> FALSE, val |-> JString(""), next |-> 0]
Parsed(val, next) == [ok |-> TRUE, val |-> val, next |-> next]

RECURSIVE skip_ws(_, _)
skip_ws(s, i) ==
  IF i <= Len(s) /\ CharAt(s, i) \in {" ", "\n"} THEN skip_ws(s, i + 1) ELSE i

\* the character an escape sequence stands for
Unescape == [c \in {"\"", "\\", "/", "n"} |-> IF c = "n" THEN "\n" ELSE c]

RECURSIVE parse_str(_, _, _)
\* i is behind the opening quote; a raw newline is a control character
parse_str(s, i, acc) ==
  IF i > Len(s) THEN Failed
  ELSE IF CharAt(s, i) = "\"" THEN Parsed(JString(acc), i + 1)
  ELSE IF CharAt(s, i) = "\n" THEN Failed
  ELSE IF CharAt(s, i) = "\\"
  THEN IF i + 1 <= Len(s) /\ CharAt(s, i + 1) \in DOMAIN Unescape
       THEN parse_str(s, i + 2, acc \o Unescape[CharAt(s, i + 1)])
       ELSE Failed
  ELSE parse_str(s, i + 1, acc \o CharAt(s, i))

RECURSIVE parse_value(_, _), parse_value_at(_, _), parse_elements(_, _, _),
          after_element(_, _, _), after_element_at(_, _, _), parse_members(_, _, _),
          after_key(_, _, _), after_key_at(_, _, _, _), after_member(_, _, _, _),
          after_member_at(_, _, _)

parse_value(s, i) == parse_value_at(s, skip_ws(s, i))

parse_value_at(s, i) ==
  IF i > Len(s) THEN Failed
  ELSE IF CharAt(s, i) = "\"" THEN parse_str(s, i + 1, "")
  ELSE IF CharAt(s, i) = "["
  THEN IF CharAt(s, skip_ws(s, i + 1)) = "]"
       THEN Parsed(JArray(<<>>), skip_ws(s, i + 1) + 1)
       ELSE parse_elements(s, i + 1, <<>>)
  ELSE IF CharAt(s, i) = "{"
  THEN IF CharAt(s, skip_ws(s, i + 1)) = "}"
       THEN Parsed(JObject(EmptyMap), skip_ws(s, i + 1) + 1)
       ELSE parse_members(s, skip_ws(s, i + 1), EmptyMap)
  ELSE Failed

parse_elements(s, i, acc) == after_element(s, acc, parse_value(s, i))

after_element(s, acc, r) ==
  IF r.ok THEN after_element_at(s, Append(acc, r.val), skip_ws(s, r.next)) ELSE Failed

after_element_at(s, acc, i) ==
  IF CharAt(s, i) = "," THEN parse_elements(s, i + 1, acc)
  ELSE IF CharAt(s, i) = "]" THEN Parsed(JArray(acc), i + 1)
  ELSE Failed

parse_members(s, i, acc) ==
  IF CharAt(s, i) = "\"" THEN after_key(s, acc, parse_str(s, i + 1, "")) ELSE Failed

after_key(s, acc, k) ==
  IF k.ok THEN after_key_at(s, acc, k.val.v, skip_ws(s, k.next)) ELSE Failed

after_key_at(s, acc, key, i) ==
  IF CharAt(s, i) = ":" THEN after_member(s, acc, key, parse_value(s, i + 1)) ELSE Failed

after_member(s, acc, key, r) ==
  IF r.ok THEN after_member_at(s, MapPut(acc, key, r.val), skip_ws(s, r.next)) ELSE Failed

after_member_at(s, acc, i) ==
  IF CharAt(s, i) = "," THEN parse_members(s, skip_ws(s, i + 1), acc)
  ELSE IF CharAt(s, i) = "}" THEN Parsed(JObject(acc), i + 1)
  ELSE Failed

\* the whole string must be one value
from_str_end(s, r) == IF r.ok /\ skip_ws(s, r.next) > Len(s) THEN r ELSE Failed

from_str(s) == from_str_end(s, parse_value(s, 1))

----------------------------------------------------------------------------
(* Re-expansion: thick rows back to triples.  The functions of             *)
(* thick2triples share the global counter B_ID; here each takes and        *)
(* returns acc = [triples, b_id]: the triples collected so far and the     *)
(* counter.  B_ID is a usize and never negative: the loops read acc.b_id   *)
(* at each step, so that the accumulator is a value when the step begins.  *)

TripleQuoted(s) == "\"\"\"" \o s \o "\"\"\""

deprefix(prefixes, content) ==
  LET v == Split(content, ":")
      hits == {i \in 1..Len(prefixes) : Len(v) = 2 /\ prefixes[i].prefix = v[1]}
  IN IF hits # {}
     THEN "<" \o prefixes[CHOOSE h \in hits : \A g \in hits : h <= g].base \o v[2] \o ">"
     ELSE IF Contains(content, "^^") \/ Contains(content, "@") THEN content
     ELSE TripleQuoted(content)

quote(token) ==
  IF Contains(token, "\n")
  THEN TripleQuoted(IF StartsWith(token, "\"") /\ EndsWith(DropFirst(token, 1), "\"")
                    THEN SubSeq(token, 2, Len(token) - 1)
                    ELSE token)
  ELSE token

create_node(prefixes, content) ==
  IF IsString(content)
  THEN IF StartsWith(content.v, "_:") THEN content
       ELSE IF StartsWith(content.v, "<") THEN content
       ELSE IF StartsWith(content.v, "http") THEN JString(TripleQuoted(content.v))
       ELSE JString(deprefix(prefixes, content.v))
  ELSE IF IsObject(content)
  THEN IF HasKey(content, "value") /\ IsString(content.v["value"])
          /\ HasKey(content, "language") /\ IsString(content.v["language"])
       THEN JString(quote(content.v["value"].v) \o "@" \o content.v["language"].v)
       ELSE IF HasKey(content, "value") /\ IsString(content.v["value"])
               /\ HasKey(content, "datatype") /\ IsString(content.v["datatype"])
       THEN JString(quote(content.v["value"].v) \o "^^" \o content.v["datatype"].v)
       ELSE IF HasKey(content, "value") /\ IsString(content.v["value"])
       THEN JString(quote(content.v["value"].v))
       ELSE JString(to_string(content))
  ELSE JString(to_string(content))

\* main.rs 577-590
SPO ==
  [annotations |-> [subject |-> "owl:annotatedSource",
                    predicate |-> "owl:annotatedProperty",
                    object |-> "owl:annotatedTarget"],
   metadata |-> [subject |-> "rdf:subject",
                 predicate |-> "rdf:predicate",
                 object |-> "rdf:object"]]

\* main.rs 616-628: the map of the thick row's subject or predicate
node_map(thick_row, key) ==
  IF Has(thick_row, key) /\ IsString(thick_row[key])
  THEN MapPut(EmptyMap, "object", thick_row[key])
  ELSE EmptyMap

\* main.rs 656-660: the overlay's own predicates go on top
with_overlay(annodata, thick_row, decomp_type) ==
  IF Has(thick_row, decomp_type) /\ IsObject(thick_row[decomp_type])
  THEN [key \in DOMAIN annodata \cup DOMAIN thick_row[decomp_type].v |->
          IF key \in DOMAIN thick_row[decomp_type].v THEN thick_row[decomp_type].v[key]
          ELSE annodata[key]]
  ELSE annodata

\* main.rs 616-661: the predicate map of the overlay subject
annodata_of(thick_row, decomp_type, target_map) ==
  with_overlay(
    MapPut(MapPut(MapPut(MapPut(EmptyMap,
      SPO[decomp_type].subject, JArray(<<JObject(node_map(thick_row, "subject"))>>)),
      SPO[decomp_type].predicate, JArray(<<JObject(node_map(thick_row, "predicate"))>>)),
      SPO[decomp_type].object, JArray(<<JObject(target_map)>>)),
      "rdf:type",
      JArray(<<JObject(MapPut(EmptyMap, "object",
                              JString(IF decomp_type = "annotations" THEN "owl:Axiom"
                                      ELSE "rdf:Statement")))>>)),
    thick_row, decomp_type)

\* the triple pushed by obj2triples and val2triples
triple_of(prefixes, subject, predicate, object) ==
  JObject([subject |-> create_node(prefixes, JString(subject)),
           predicate |-> create_node(prefixes, JString(predicate)),
           object |-> create_node(prefixes, object)])

push_triple(prefixes, subject, predicate, object, acc) ==
  [acc EXCEPT !.triples = Append(@, triple_of(prefixes, subject, predicate, object))]

\* main.rs 712: the blank node named after the nested triples of an Array target
push_array_triple(prefixes, subject, predicate, acc) ==
  push_triple(prefixes, subject, predicate,
              JString("_:myb" \o ToString(acc.b_id - 1)), acc)

\* Value::get(key) as a string, "" when it is not one (700-708, 875-884)
string_or_empty(m, key) == IF Has(m, key) /\ IsString(m[key]) THEN m[key].v ELSE ""

\* main.rs 793-813: the target of a literal row
literal_target(thick_row) ==
  IF Has(thick_row, "datatype") /\ IsString(thick_row["datatype"])
  THEN JObject([value |-> JString(to_string(thick_row["value"])),
                datatype |-> thick_row["datatype"]])
  ELSE IF Has(thick_row, "language") /\ IsString(thick_row["language"])
  THEN JObject([value |-> JString(to_string(thick_row["value"])),
                language |-> thick_row["language"]])
  ELSE thick_row["value"]

RECURSIVE thick2triples(_, _, _, _, _), predicate_map_to_triples(_, _, _),
          predicates_to_triples(_, _, _, _, _), objects_to_triples(_, _, _, _, _, _),
          obj2triples(_, _, _, _, _), val2triples(_, _, _, _, _),
          target_to_triples(_, _, _, _, _), elements_to_triples(_, _, _, _),
          overlay_to_triples(_, _, _, _, _, _), decompress(_, _, _, _, _, _)

\* returns [annodata, b_id]
decompress(prefixes, thick_row, target, target_type, decomp_type, b_id) ==
  IF IsObject(target) /\ ~Has(target.v, "value")
  THEN LET nested == predicate_map_to_triples(prefixes, target.v,
                                              [triples |-> <<>>, b_id |-> b_id])
       IN [annodata |-> annodata_of(thick_row, decomp_type,
                                    MapPut(EmptyMap, target_type, JArray(nested.triples))),
           b_id |-> nested.b_id]
  ELSE [annodata |-> annodata_of(thick_row, decomp_type,
                                 IF IsObject(target) \/ IsString(target)
                                 THEN MapPut(EmptyMap, target_type, target)
                                 ELSE EmptyMap),
        b_id |-> b_id]

\* main.rs 669-672: B_ID += 1 names the blank node of the map
predicate_map_to_triples(prefixes, pred_map, acc) ==
  predicates_to_triples(prefixes, "_:myb" \o ToString(acc.b_id + 1), pred_map,
                        Keys(pred_map), [acc EXCEPT !.b_id = @ + 1])

\* main.rs 673-683
predicates_to_triples(prefixes, bnode, pred_map, keys, acc) ==
  IF keys = <<>> \/ acc.b_id < 0 THEN acc
  ELSE predicates_to_triples(prefixes, bnode, pred_map, Tail(keys),
         objects_to_triples(prefixes, bnode, Head(keys), pred_map[Head(keys)], 1, acc))

\* main.rs 674-682
objects_to_triples(prefixes, bnode, predicate, objects, i, acc) ==
  IF ~IsArray(objects) \/ i > Len(objects.v) \/ acc.b_id < 0 THEN acc
  ELSE objects_to_triples(prefixes, bnode, predicate, objects, i + 1,
         IF IsObject(objects.v[i])
         THEN thick2triples(prefixes, bnode, predicate, objects.v[i].v, acc)
         ELSE acc)

\* main.rs 697-711: the elements of an Array target
elements_to_triples(prefixes, target, i, acc) ==
  IF i > Len(target) \/ acc.b_id < 0 THEN acc
  ELSE elements_to_triples(prefixes, target, i + 1,
         IF IsObject(target[i])
         THEN thick2triples(prefixes, string_or_empty(target[i].v, "subject"),
                            string_or_empty(target[i].v, "predicate"), target[i].v, acc)
         ELSE acc)

\* main.rs 695-763
target_to_triples(prefixes, subject, predicate, target, acc) ==
  IF IsArray(target)
  THEN push_array_triple(prefixes, subject, predicate,
                         elements_to_triples(prefixes, target.v, 1, acc))
  ELSE IF IsObject(target)
  THEN push_triple(prefixes, subject, predicate,
                   JString("_:myb" \o ToString(acc.b_id + 1)),
                   predicate_map_to_triples(prefixes, target.v, acc))
  ELSE push_triple(prefixes, subject, predicate, target, acc)

\* main.rs 765-781, 830-842: the triples of an `annotations` or `metadata` key
overlay_to_triples(prefixes, thick_row, target, target_type, decomp_type, acc) ==
  IF Has(thick_row, decomp_type) /\ acc.b_id >= 0
  THEN LET d == decompress(prefixes, thick_row, target, target_type, decomp_type, acc.b_id)
       IN predicate_map_to_triples(prefixes, d.annodata,
                                   [triples |-> acc.triples, b_id |-> d.b_id])
  ELSE acc

obj2triples(prefixes, subject, predicate, thick_row, acc) ==
  overlay_to_triples(prefixes, thick_row, thick_row["object"], "object", "metadata",
    overlay_to_triples(prefixes, thick_row, thick_row["object"], "object", "annotations",
      target_to_triples(prefixes, subject, predicate, thick_row["object"], acc)))

val2triples(prefixes, subject, predicate, thick_row, acc) ==
  overlay_to_triples(prefixes, thick_row, literal_target(thick_row), "value", "metadata",
    overlay_to_triples(prefixes, thick_row, literal_target(thick_row), "value",
                       "annotations",
      push_triple(prefixes, subject, predicate, literal_target(thick_row), acc)))

\* main.rs 851-858
thick2triples(prefixes, subject, predicate, thick_row, acc) ==
  IF Has(thick_row, "object") THEN obj2triples(prefixes, subject, predicate, thick_row, acc)
  ELSE IF Has(thick_row, "value")
  THEN val2triples(prefixes, subject, predicate, thick_row, acc)
  ELSE acc

\* main.rs 867-874: a row whose object is the text of a JSON object gets it back
with_parsed_object(row) ==
  IF Has(row, "object") /\ IsString(row["object"]) /\ StartsWith(row["object"].v, "{")
     /\ from_str(row["object"].v).ok
  THEN MapPut(row, "object", from_str(row["object"].v).val)
  ELSE row

\* main.rs 875-885
row_to_triples(prefixes, row, acc) ==
  thick2triples(prefixes, string_or_empty(row, "subject"),
                string_or_empty(row, "predicate"), row, acc)

RECURSIVE thicks2triples_from(_, _, _, _)
thicks2triples_from(prefixes, thick_rows, i, acc) ==
  IF i > Len(thick_rows) \/ acc.b_id < 0 THEN acc
  ELSE thicks2triples_from(prefixes, thick_rows, i + 1,
                           row_to_triples(prefixes, with_parsed_object(thick_rows[i]), acc))

\* returns [triples, b_id], from the counter's value b_id
thicks2triples(prefixes, thick_rows, b_id) ==
  thicks2triples_from(prefixes, thick_rows, 1, [triples |-> <<>>, b_id |-> b_id])

\* main.rs 1034-1050: the lines printed
prefix_line(p) == "@prefix " \o p.prefix \o ": <" \o p.base \o "> ."

triple_line(triple) ==
  (IF HasKey(triple, "subject") /\ IsString(triple.v["subject"])
   THEN triple.v["subject"].v \o " " ELSE "\"\" ")
  \o (IF HasKey(triple, "predicate") /\ IsString(triple.v["predicate"])
      THEN triple.v["predicate"].v \o " " ELSE "\"\" ")
  \o (IF HasKey(triple, "object") /\ IsString(triple.v["object"])
      THEN triple.v["object"].v \o " ." ELSE "\"\"")

----------------------------------------------------------------------------
(* The parser's triples (rio_api::model) *)

NamedNode(iri) == [kind |-> "NamedNode", iri |-> iri]
BlankNode(id) == [kind |-> "BlankNode", id |-> id]
Simple(value) == [kind |-> "Simple", value |-> value]
Typed(value, datatype) == [kind |-> "Typed", value |-> value, datatype |-> datatype]
LanguageTaggedString(value, language) ==
  [kind |-> "LanguageTaggedString", value |-> value, language |-> language]
Triple(s, p, o) == [subject |-> s, predicate |-> p, object |-> o]

stanza_end == NamedNode("http://example.com/stanza-end")
annotated_source == NamedNode("http://www.w3.org/2002/07/owl#annotatedSource")
rdf_subject == NamedNode("http://www.w3.org/1999/02/22-rdf-syntax-ns#subject")

\* the rows of the `prefix` table of the target database
PrefixTable ==
  << [prefix |-> "ex", base |-> "http://example.com/"],
     [prefix |-> "exo", base |-> "http://example.com/o/"],
     [prefix |-> "owl", base |-> "http://www.w3.org/2002/07/owl#"],
     [prefix |-> "rdf", base |-> "http://www.w3.org/1999/02/22-rdf-syntax-ns#"],
     [prefix |-> "rdfs", base |-> "http://www.w3.org/2000/01/rdf-schema#"],
     [prefix |-> "xsd", base |-> "http://www.w3.org/2001/XMLSchema#"] >>

prefixes == get_prefixes(PrefixTable)

\* main.rs 946-969: the buffered row of a triple
row_of_triple(t) ==
  LET subject == IF t.subject.kind = "NamedNode" THEN Some(shorten(prefixes, t.subject.iri))
                 ELSE Some("_:" \o t.subject.id)
      predicate == Some(shorten(prefixes, t.predicate.iri))
      o == t.object
  IN <<subject, predicate>> \o
     (IF o.kind = "NamedNode" THEN <<Some(shorten(prefixes, o.iri)), None, None, None>>
      ELSE IF o.kind = "BlankNode" THEN <<Some("_:" \o o.id), None, None, None>>
      ELSE IF o.kind = "Simple" THEN <<None, Some(o.value), None, None>>
      ELSE IF o.kind = "Typed"
      THEN <<None, Some(o.value), Some(shorten(prefixes, o.datatype)), None>>
      ELSE <<None, Some(o.value), None, Some(o.language)>>)

\* a stanza id that the overlay fallback sets whether or not an id is set
stanza_after_overriding(stanza, t) ==
  IF (t.predicate = annotated_source \/ t.predicate = rdf_subject)
     /\ t.object.kind = "NamedNode"
  THEN shorten(prefixes, t.object.iri)
  ELSE IF t.subject.kind = "NamedNode" THEN shorten(prefixes, t.subject.iri) ELSE stanza

\* main.rs 972-985: the stanza id after a triple
stanza_after(stanza, t) ==
  LET s1 == IF t.subject.kind = "NamedNode" THEN shorten(prefixes, t.subject.iri) ELSE stanza
  IN IF s1 = "" /\ (t.predicate = annotated_source \/ t.predicate = rdf_subject)
        /\ t.object.kind = "NamedNode"
     THEN shorten(prefixes, t.object.iri)
     ELSE s1

----------------------------------------------------------------------------
(* Documents: what the RDF/XML parser delivers from STDIN *)

ex(local) == NamedNode("http://example.com/" \o local)
owl(local) == NamedNode("http://www.w3.org/2002/07/owl#" \o local)
rdf(local) == NamedNode("http://www.w3.org/1999/02/22-rdf-syntax-ns#" \o local)
rdfs(local) == NamedNode("http://www.w3.org/2000/01/rdf-schema#" \o local)

End == Triple(stanza_end, stanza_end, stanza_end)

\* the concrete scenarios of the specification, and the cases of the claims
Scenario ==
  [TwoLiterals |->
      << Triple(ex("A"), rdfs("label"), LanguageTaggedString("hi", "en")),
       Triple(ex("A"), rdfs("label"), LanguageTaggedString("salut", "fr")), End >>,
    InlinedBlank |->
      << Triple(ex("X"), ex("has"), BlankNode("b1")),
       Triple(BlankNode("b1"), ex("p"), Simple("v")), End >>,
    OwlAnnotation |->
      << Triple(ex("S"), ex("P"), ex("O")),
       Triple(BlankNode("a"), rdf("type"), owl("Axiom")),
       Triple(BlankNode("a"), owl("annotatedSource"), ex("S")),
       Triple(BlankNode("a"), owl("annotatedProperty"), ex("P")),
       Triple(BlankNode("a"), owl("annotatedTarget"), ex("O")),
       Triple(BlankNode("a"), rdfs("comment"), Simple("note")), End >>,
    Reification |->
      << Triple(ex("S"), ex("P"), ex("O")),
       Triple(BlankNode("a"), rdf("type"), rdf("Statement")),
       Triple(BlankNode("a"), rdf("subject"), ex("S")),
       Triple(BlankNode("a"), rdf("predicate"), ex("P")),
       Triple(BlankNode("a"), rdf("object"), ex("O")),
       Triple(BlankNode("a"), rdfs("comment"), Simple("note")), End >>,
    UnusedBlank |->
      << Triple(ex("Y"), ex("p"), BlankNode("b")),
       Triple(BlankNode("b"), ex("q"), BlankNode("c")), End >>,
    BlankCycle |->
      << Triple(ex("A"), ex("p"), BlankNode("a")),
       Triple(BlankNode("a"), ex("q"), BlankNode("b")),
       Triple(BlankNode("b"), ex("q"), BlankNode("a")), End >>,
    SentinelWithData |->
      << Triple(ex("A"), ex("p"), Simple("v")),
       Triple(stanza_end, ex("p"), Simple("w")),
       Triple(ex("B"), ex("p"), stanza_end), End >>,
    SelfCycle |->
      << Triple(BlankNode("a"), ex("q"), BlankNode("a")), End >>,
    SharedBlank |->
      << Triple(ex("A"), ex("p"), BlankNode("b")),
       Triple(ex("B"), ex("p"), BlankNode("b")),
       Triple(BlankNode("b"), ex("q"), Simple("v")), End >>,
    NestedBlanks |->
      << Triple(ex("A"), ex("p"), BlankNode("a")),
       Triple(BlankNode("a"), ex("q"), BlankNode("b")),
       Triple(BlankNode("b"), ex("q"), Typed("1", "http://www.w3.org/2001/XMLSchema#int")), End >>,
    TwoStanzas |->
      << Triple(ex("B"), ex("p"), Simple("v")), End,
       Triple(ex("A"), ex("p"), Simple("v")), End >>,
    TwoNamedSubjects |->
      << Triple(ex("B"), ex("p"), Simple("v")),
       Triple(ex("D"), ex("p"), Simple("w")), End,
       Triple(ex("C"), ex("p"), Simple("v")), End >>,
    TwoNamedSubjectsSwapped |->
      << Triple(ex("D"), ex("p"), Simple("w")),
       Triple(ex("B"), ex("p"), Simple("v")), End,
       Triple(ex("C"), ex("p"), Simple("v")), End >>,
    DeepChain |->
      << Triple(ex("A"), ex("p"), BlankNode("b1")),
       Triple(BlankNode("b1"), ex("q"), BlankNode("b2")),
       Triple(BlankNode("b2"), ex("q"), BlankNode("b3")),
       Triple(BlankNode("b3"), ex("q"), BlankNode("b4")),
       Triple(BlankNode("b4"), ex("q"), BlankNode("b5")),
       Triple(BlankNode("b5"), ex("q"), Simple("v")), End >>,
    MixedDepth |->
      << Triple(ex("A"), ex("p"), BlankNode("b")),
       Triple(ex("A"), ex("p"), BlankNode("c")),
       Triple(BlankNode("c"), ex("q"), BlankNode("b")),
       Triple(BlankNode("b"), ex("q"), Simple("v")), End >>,
    BothForms |->
      << Triple(ex("S"), ex("P"), ex("O")),
       Triple(BlankNode("a"), rdf("type"), owl("Axiom")),
       Triple(BlankNode("a"), owl("annotatedSource"), ex("S")),
       Triple(BlankNode("a"), owl("annotatedProperty"), ex("P")),
       Triple(BlankNode("a"), owl("annotatedTarget"), ex("O")),
       Triple(BlankNode("a"), rdf("subject"), ex("S")),
       Triple(BlankNode("a"), rdf("predicate"), ex("P")),
       Triple(BlankNode("a"), rdf("object"), ex("O")),
       Triple(BlankNode("a"), rdfs("comment"), Simple("note")), End >>,
    TwoOverlays |->
      << Triple(ex("S"), ex("P"), ex("O")),
       Triple(BlankNode("a"), rdf("type"), owl("Axiom")),
       Triple(BlankNode("a"), owl("annotatedSource"), ex("S")),
       Triple(BlankNode("a"), owl("annotatedProperty"), ex("P")),
       Triple(BlankNode("a"), owl("annotatedTarget"), ex("O")),
       Triple(BlankNode("a"), rdfs("comment"), Simple("note")),
       Triple(BlankNode("b"), rdf("type"), owl("Axiom")),
       Triple(BlankNode("b"), owl("annotatedSource"), ex("S")),
       Triple(BlankNode("b"), owl("annotatedProperty"), ex("P")),
       Triple(BlankNode("b"), owl("annotatedTarget"), ex("O")),
       Triple(BlankNode("b"), rdfs("label"), Simple("name")), End >>,
    LiteralTarget |->
      << Triple(ex("S"), rdfs("label"), LanguageTaggedString("hi", "en")),
       Triple(BlankNode("a"), rdf("type"), rdf("Statement")),
       Triple(BlankNode("a"), rdf("subject"), ex("S")),
       Triple(BlankNode("a"), rdf("predicate"), rdfs("label")),
       Triple(BlankNode("a"), rdf("object"), LanguageTaggedString("hi", "en")),
       Triple(BlankNode("a"), rdfs("comment"), Simple("note")), End >>,
    Orphan |->
      << Triple(ex("S"), ex("P"), ex("O")),
       Triple(BlankNode("a"), rdf("type"), owl("Axiom")),
       Triple(BlankNode("a"), owl("annotatedSource"), ex("S")),
       Triple(BlankNode("a"), owl("annotatedProperty"), ex("P")),
       Triple(BlankNode("a"), owl("annotatedTarget"), ex("Other")),
       Triple(BlankNode("a"), rdfs("comment"), Simple("note")), End >>,
    OrphanAlone |->
      << Triple(BlankNode("a"), rdf("type"), rdf("Statement")),
       Triple(BlankNode("a"), rdf("subject"), ex("S")),
       Triple(BlankNode("a"), rdf("predicate"), ex("P")),
       Triple(BlankNode("a"), rdf("object"), ex("O")),
       Triple(BlankNode("a"), rdfs("comment"), Simple("note")), End >>,
    LanguageMismatch |->
      << Triple(ex("S"), rdfs("label"), LanguageTaggedString("hi", "fr")),
       Triple(BlankNode("a"), rdf("type"), owl("Axiom")),
       Triple(BlankNode("a"), owl("annotatedSource"), ex("S")),
       Triple(BlankNode("a"), owl("annotatedProperty"), rdfs("label")),
       Triple(BlankNode("a"), owl("annotatedTarget"), LanguageTaggedString("hi", "en")),
       Triple(BlankNode("a"), rdfs("comment"), Simple("note")), End >>,
    LiteralLikeNode |->
      << Triple(ex("S"), ex("P"), Simple("ex:O")),
       Triple(BlankNode("a"), rdf("type"), owl("Axiom")),
       Triple(BlankNode("a"), owl("annotatedSource"), ex("S")),
       Triple(BlankNode("a"), owl("annotatedProperty"), ex("P")),
       Triple(BlankNode("a"), owl("annotatedTarget"), ex("O")),
       Triple(BlankNode("a"), rdfs("comment"), Simple("note")), End >>,
    AnnotatedSecond |->
      << Triple(ex("S"), ex("P"), ex("M")),
       Triple(ex("S"), ex("P"), ex("O")),
       Triple(BlankNode("a"), rdf("type"), owl("Axiom")),
       Triple(BlankNode("a"), owl("annotatedSource"), ex("S")),
       Triple(BlankNode("a"), owl("annotatedProperty"), ex("P")),
       Triple(BlankNode("a"), owl("annotatedTarget"), ex("O")),
       Triple(BlankNode("a"), rdfs("comment"), Simple("note")), End >>,
    OverlayOnOverlay |->
      << Triple(ex("S"), ex("P"), ex("O")),
       Triple(ex("N"), rdf("type"), rdf("Statement")),
       Triple(ex("N"), rdf("subject"), ex("S")),
       Triple(ex("N"), rdf("predicate"), ex("P")),
       Triple(ex("N"), rdf("object"), ex("O")),
       Triple(ex("N"), rdfs("comment"), Simple("note")),
       Triple(BlankNode("a"), owl("annotatedSource"), ex("N")),
       Triple(BlankNode("a"), owl("annotatedProperty"), rdfs("comment")),
       Triple(BlankNode("a"), owl("annotatedTarget"), Simple("note")),
       Triple(BlankNode("a"), rdfs("label"), Simple("why")),
       Triple(ex("Z"), owl("annotatedSource"), ex("N")),
       Triple(ex("Z"), owl("annotatedProperty"), rdfs("comment")),
       Triple(ex("Z"), owl("annotatedTarget"), Simple("note")),
       Triple(ex("Z"), rdfs("label"), Simple("how")), End >>,
    StanzaFallbacks |->
      << Triple(BlankNode("a"), owl("annotatedSource"), ex("S")),
       Triple(BlankNode("a"), rdf("subject"), ex("T")), End,
       Triple(BlankNode("a"), owl("annotatedSource"), ex("S")),
       Triple(ex("B"), ex("p"), Simple("v")),
       Triple(BlankNode("a"), rdf("subject"), ex("T")), End,
       Triple(BlankNode("b"), rdf("subject"), Simple("w")),
       Triple(BlankNode("b"), ex("q"), Simple("w")), End >>,
    FlatTarget |->
      << Triple(ex("S"), ex("P"), BlankNode("x")),
       Triple(BlankNode("x"), ex("q"), Simple("v")),
       Triple(BlankNode("a"), rdf("type"), owl("Axiom")),
       Triple(BlankNode("a"), owl("annotatedSource"), ex("S")),
       Triple(BlankNode("a"), owl("annotatedProperty"), ex("P")),
       Triple(BlankNode("a"), owl("annotatedTarget"), BlankNode("x")),
       Triple(BlankNode("a"), rdfs("comment"), Simple("c")), End >>,
    NestedTarget |->
      << Triple(ex("S"), ex("P"), BlankNode("x")),
       Triple(BlankNode("x"), ex("q"), BlankNode("y")),
       Triple(BlankNode("y"), ex("r"), Simple("v")),
       Triple(BlankNode("a"), rdf("type"), owl("Axiom")),
       Triple(BlankNode("a"), owl("annotatedSource"), ex("S")),
       Triple(BlankNode("a"), owl("annotatedProperty"), ex("P")),
       Triple(BlankNode("a"), owl("annotatedTarget"), BlankNode("x")),
       Triple(BlankNode("a"), rdfs("comment"), Simple("c")), End >> ]

ScenarioDocuments == Range(Scenario)

\* every document of at most MaxLen triples over a small alphabet
MaxLen == 3

FreeTriples ==
  { Triple(ex("A"), ex("p"), Simple("ex:O")),
    Triple(ex("B"), ex("p"), ex("A")),
    Triple(ex("A"), ex("q"), BlankNode("b")),
    Triple(BlankNode("b"), ex("p"), Simple("v")),
    End }

RECURSIVE SeqsUpTo(_, _)
SeqsUpTo(S, n) ==
  IF n = 0 THEN {<<>>}
  ELSE LET shorter == SeqsUpTo(S, n - 1)
       IN shorter \cup {Append(d, t) : d \in {e \in shorter : Len(e) = n - 1}, t \in S}

Documents == ScenarioDocuments \cup SeqsUpTo(FreeTriples, MaxLen)

\* command lines (args[1] is the program name)
CommandLines ==
  { <<"rdftab">>, <<"rdftab", "-h">>, <<"rdftab", "--help">>, <<"rdftab", "-r">>,
    <<"rdftab", "t.db">>, <<"rdftab", "-r", "t.db">>, <<"rdftab", "--round-trip", "t.db">> }

\* the command lines on which main calls insert
Inserts(a) ==
  /\ Len(a) >= 2
  /\ a[2] \notin {"--help", "-h"}
  /\ (a[2] \in {"--round-trip", "-r"} => Len(a) >= 3)

----------------------------------------------------------------------------
(* The program *)

\* the passes of the inliner's loop the model follows for one stanza
MaxPasses == 8

VARIABLES
  args,                 \* the command line
  doc,                  \* the triples the parser delivers, in order
  pos,                  \* how many of them it has delivered
  pc,                   \* main | open | parsing | converting | inlining |
                        \* inserting | round_trip | exited
  round_trip,           \* main: -r / --round-trip
  exit_code,            \* the status of the process, once it has exited
  error,                \* what failed, "" while nothing has
  stack,                \* insert: the buffered rows of the current stanza
  stanza,               \* insert: the current stanza id
  thin_rows_by_stanza,  \* insert: BTreeMap stanza -> thin rows
  todo,                 \* the stanzas the conversion loop (993) has still to visit
  subjects,             \* thin_rows_to_subjects: the SubjectMap of the stanza at hand
  dependencies,         \* its dependencies map
  passes,               \* iterations of work_through_dependencies' loop so far
  thick_rows,           \* insert: the thick rows
  tx,                   \* rows inserted in the open transaction
  table,                \* the committed rows of `statements`
  stdout,               \* the lines printed in round-trip mode
  triples,              \* insert: the triples thicks2triples returned
  B_ID,                 \* the global blank-node counter
  stanza_of_row         \* for each thick row, the key of the stanza the loop (993) was at

vars == << args, doc, pos, pc, round_trip, exit_code, error, stack, stanza,
           thin_rows_by_stanza, todo, subjects, dependencies, passes, thick_rows,
           tx, table, stdout, triples, B_ID, stanza_of_row >>

Init ==
  /\ args \in CommandLines
  /\ doc \in (IF Inserts(args) THEN Documents ELSE {<<>>})
  /\ pos = 0
  /\ pc = "main"
  /\ round_trip = FALSE
  /\ exit_code = None
  /\ error = ""
  /\ stack = <<>>
  /\ stanza = ""
  /\ thin_rows_by_stanza = EmptyMap
  /\ todo = <<>>
  /\ subjects = EmptyMap
  /\ dependencies = EmptyMap
  /\ passes = 0
  /\ thick_rows = <<>>
  /\ tx = <<>>
  /\ table = <<>>
  /\ stdout = <<>>
  /\ triples = <<>>
  /\ B_ID = 0
  /\ stanza_of_row = <<>>

\* process::exit(code), or a panic (status 101); an open transaction is
\* dropped, which rolls it back
Exit(code, what) ==
  /\ pc' = "exited"
  /\ exit_code' = Some(code)
  /\ error' = what
  /\ tx' = <<>>

PanicStatus == 101

\* main.rs 1056-1089, up to the call of insert
Main ==
  /\ pc = "main"
  /\ IF Len(args) < 2
     THEN Exit(1, "missing argument") /\ UNCHANGED round_trip
     ELSE IF args[2] \in {"--help", "-h"}
     THEN Exit(0, "") /\ UNCHANGED round_trip
     ELSE IF args[2] \in {"--round-trip", "-r"}
     THEN IF Len(args) >= 3
          THEN pc' = "open" /\ round_trip' = TRUE /\ UNCHANGED <<exit_code, error, tx>>
          ELSE Exit(1, "missing argument") /\ UNCHANGED round_trip
     ELSE pc' = "open" /\ round_trip' = FALSE /\ UNCHANGED <<exit_code, error, tx>>
  /\ UNCHANGED << args, doc, pos, stack, stanza, thin_rows_by_stanza, todo, subjects,
                  dependencies, passes, thick_rows, table, stdout, triples, B_ID, stanza_of_row >>

\* insert, main.rs 907-921: open the database, read the prefixes, begin the
\* transaction, create the table.  `?` returns the error to main (exit 1),
\* expect panics.

Open ==
  /\ pc = "open"
  /\ \E outcome \in {"ok", "open failed", "get_prefixes failed", "transaction failed", "create table failed"} :
       IF outcome = "ok" THEN pc' = "parsing" /\ UNCHANGED <<exit_code, error, tx>>
       ELSE IF outcome = "get_prefixes failed" THEN Exit(PanicStatus, outcome)
       ELSE Exit(1, outcome)
  /\ UNCHANGED << args, doc, pos, round_trip, stack, stanza, thin_rows_by_stanza, todo,
                  subjects, dependencies, passes, thick_rows, table, stdout, triples, B_ID, stanza_of_row >>

\* the callback of parse_all, main.rs 926-988
flush(by_stanza, stanza_stack, stanza_name) ==
  LET thin == thinify(stanza_stack, stanza_name)
      stanza_rows == [i \in 1..Len(thin) |->
                        IF Len(thin[i]) # 7 THEN resize_with(thin[i], 7) ELSE thin[i]]
  IN IF Has(by_stanza, stanza_name)
     THEN MapPut(by_stanza, stanza_name, by_stanza[stanza_name] \o stanza_rows)
     ELSE MapPut(by_stanza, stanza_name, stanza_rows)

\* a callback that flushes at the sentinel and then buffers it like any triple
callback_buffering_sentinel(st, t) ==
  IF t.subject = stanza_end
  THEN [stack |-> <<row_of_triple(t)>>, stanza |-> "",
        thin_rows_by_stanza |-> flush(st.thin_rows_by_stanza, st.stack, st.stanza)]
  ELSE [stack |-> Append(st.stack, row_of_triple(t)),
        stanza |-> stanza_after(st.stanza, t),
        thin_rows_by_stanza |-> st.thin_rows_by_stanza]

\* main.rs 927-987: one triple; st = [stack, stanza, thin_rows_by_stanza]
callback(st, t) ==
  IF t.subject = stanza_end
  THEN [stack |-> <<>>, stanza |-> "",
        thin_rows_by_stanza |-> flush(st.thin_rows_by_stanza, st.stack, st.stanza)]
  ELSE [stack |-> Append(st.stack, row_of_triple(t)),
        stanza |-> stanza_after(st.stanza, t),
        thin_rows_by_stanza |-> st.thin_rows_by_stanza]

Callback ==
  /\ pc = "parsing"
  /\ pos < Len(doc)
  /\ LET after == callback([stack |-> stack, stanza |-> stanza,
                            thin_rows_by_stanza |-> thin_rows_by_stanza], doc[pos + 1])
     IN /\ stack' = after.stack
        /\ stanza' = after.stanza
        /\ thin_rows_by_stanza' = after.thin_rows_by_stanza
  /\ pos' = pos + 1
  /\ UNCHANGED << args, doc, pc, round_trip, exit_code, error, todo, subjects,
                  dependencies, passes, thick_rows, tx, table, stdout, triples, B_ID,
                  stanza_of_row >>

\* the parser reports an error: parse_all(...).unwrap() panics (989)
ParseFailure ==
  /\ pc = "parsing"
  /\ Exit(PanicStatus, "parse failure")
  /\ UNCHANGED << args, doc, pos, round_trip, stack, stanza, thin_rows_by_stanza, todo,
                  subjects, dependencies, passes, thick_rows, table, stdout, triples, B_ID, stanza_of_row >>

\* an end of the input that flushes the rows still buffered
EndOfInput_flushing ==
  /\ pc = "parsing"
  /\ pos = Len(doc)
  /\ pc' = "converting"
  /\ thin_rows_by_stanza' = IF stack = <<>> THEN thin_rows_by_stanza
                            ELSE flush(thin_rows_by_stanza, stack, stanza)
  /\ todo' = Keys(thin_rows_by_stanza')
  /\ UNCHANGED << args, doc, pos, round_trip, exit_code, error, stack, stanza,
                  subjects, dependencies, passes, thick_rows, tx,
                  table, stdout, triples, B_ID, stanza_of_row >>

\* the end of the input: the loop over thin_rows_by_stanza begins (993)
EndOfInput ==
  /\ pc = "parsing"
  /\ pos = Len(doc)
  /\ pc' = "converting"
  /\ todo' = Keys(thin_rows_by_stanza)
  /\ UNCHANGED << args, doc, pos, round_trip, exit_code, error, stack, stanza,
                  thin_rows_by_stanza, subjects, dependencies, passes, thick_rows, tx,
                  table, stdout, triples, B_ID, stanza_of_row >>

\* thin_rows_to_subjects of the next stanza, up to the inliner's loop
StartStanza ==
  /\ pc = "converting"
  /\ todo # <<>>
  /\ LET built == thin_rows_to_subjects(thin_rows_by_stanza[Head(todo)]) IN
       /\ subjects' = built.subjects
       /\ dependencies' = built.dependencies
  /\ passes' = 0
  /\ pc' = "inlining"
  /\ UNCHANGED << args, doc, pos, round_trip, exit_code, error, stack, stanza,
                  thin_rows_by_stanza, todo, thick_rows, tx, table, stdout, triples, B_ID, stanza_of_row >>

\* one iteration of `while !dependencies.is_empty()` (314-390)
Pass ==
  /\ pc = "inlining"
  /\ DOMAIN dependencies # {}
  /\ passes < MaxPasses
  /\ LET after == work_through_dependencies_pass(dependencies, subjects) IN
       /\ subjects' = after.subjects
       /\ dependencies' = after.dependencies
  /\ passes' = passes + 1
  /\ UNCHANGED << args, doc, pos, pc, round_trip, exit_code, error, stack, stanza,
                  thin_rows_by_stanza, todo, thick_rows, tx, table, stdout, triples, B_ID, stanza_of_row >>

\* the loop has ended: annotate_reify, subjects_to_thick_rows (994-995)
FinishStanza ==
  /\ pc = "inlining"
  /\ DOMAIN dependencies = {}
  /\ LET rows == subjects_to_thick_rows(annotate_reify(subjects)) IN
       /\ thick_rows' = thick_rows \o rows
       /\ stanza_of_row' = stanza_of_row \o [i \in 1..Len(rows) |-> Head(todo)]
  /\ todo' = Tail(todo)
  /\ subjects' = EmptyMap
  /\ passes' = 0
  /\ pc' = "converting"
  /\ UNCHANGED << args, doc, pos, round_trip, exit_code, error, stack, stanza,
                  thin_rows_by_stanza, dependencies, tx, table, stdout, triples, B_ID >>

\* every stanza is converted: the rows to insert are built (998-1019)
StartInserting ==
  /\ pc = "converting"
  /\ todo = <<>>
  /\ pc' = "inserting"
  /\ UNCHANGED << args, doc, pos, round_trip, exit_code, error, stack, stanza,
                  thin_rows_by_stanza, todo, subjects, dependencies, passes, thick_rows,
                  tx, table, stdout, triples, B_ID, stanza_of_row >>

\* one iteration of the insert loop (1022-1027): prepare_cached and execute,
\* each with expect

\* an insert loop without the transaction: every row is committed by itself
InsertRowAutocommit ==
  /\ pc = "inserting"
  /\ Len(table) < Len(thick_rows)
  /\ LET row == rows_to_insert(thick_rows)[Len(table) + 1] IN
     \E outcome \in {"ok", "prepare failed", "execute failed"} :
       IF outcome = "ok" /\ Len(row) = Len(Columns)
       THEN table' = Append(table, row) /\ UNCHANGED <<pc, exit_code, error, tx>>
       ELSE Exit(PanicStatus, IF outcome = "ok" THEN "execute failed" ELSE outcome)
            /\ UNCHANGED table
  /\ UNCHANGED << args, doc, pos, round_trip, stack, stanza, thin_rows_by_stanza, todo,
                  subjects, dependencies, passes, thick_rows, stdout, triples, B_ID,
                  stanza_of_row >>

InsertRow ==
  /\ pc = "inserting"
  /\ Len(tx) < Len(thick_rows)
  /\ LET row == rows_to_insert(thick_rows)[Len(tx) + 1] IN
     \E outcome \in {"ok", "prepare failed", "execute failed"} :
       IF outcome = "ok" /\ Len(row) = Len(Columns)
       THEN tx' = Append(tx, row) /\ UNCHANGED <<pc, exit_code, error>>
       ELSE Exit(PanicStatus, IF outcome = "ok" THEN "execute failed" ELSE outcome)
  /\ UNCHANGED << args, doc, pos, round_trip, stack, stanza, thin_rows_by_stanza, todo,
                  subjects, dependencies, passes, thick_rows, table, stdout, triples, B_ID, stanza_of_row >>

\* tx.commit()? (1029), and without -r the end of insert and of main

Commit ==
  /\ pc = "inserting"
  /\ Len(tx) = Len(thick_rows)
  /\ \E outcome \in {"ok", "commit failed"} :
       IF outcome = "ok"
       THEN /\ table' = table \o tx
            /\ tx' = <<>>
            /\ IF round_trip
               THEN pc' = "round_trip" /\ UNCHANGED <<exit_code, error>>
               ELSE pc' = "exited" /\ exit_code' = Some(0) /\ UNCHANGED error
       ELSE Exit(1, outcome) /\ UNCHANGED table
  /\ UNCHANGED << args, doc, pos, round_trip, stack, stanza, thin_rows_by_stanza, todo,
                  subjects, dependencies, passes, thick_rows, stdout, triples, B_ID, stanza_of_row >>

\* the round trip (1031-1051), then the end of insert and of main
RoundTrip ==
  /\ pc = "round_trip"
  /\ LET expanded == thicks2triples(prefixes, thick_rows, B_ID) IN
       /\ triples' = expanded.triples
       /\ B_ID' = expanded.b_id
       /\ stdout' = [i \in 1..Len(prefixes) |-> prefix_line(prefixes[i])]
                    \o [i \in 1..Len(expanded.triples) |-> triple_line(expanded.triples[i])]
  /\ pc' = "exited"
  /\ exit_code' = Some(0)
  /\ UNCHANGED << args, doc, pos, round_trip, error, stack, stanza, thin_rows_by_stanza,
                  todo, subjects, dependencies, passes, thick_rows, tx, table,
                  stanza_of_row >>

Next ==
  \/ Main
  \/ Open
  \/ Callback
  \/ ParseFailure
  \/ EndOfInput
  \/ StartStanza
  \/ Pass
  \/ FinishStanza
  \/ StartInserting
  \/ InsertRow
  \/ Commit
  \/ RoundTrip

Spec == Init /\ [][Next]_vars

----------------------------------------------------------------------------
(* insert as a function of the document: what a run that meets no failure  *)
(* inserts.  The loop of work_through_dependencies runs for at most `fuel`  *)
(* passes; ok tells whether it has ended by then.                          *)

RECURSIVE parse_all(_, _, _)
\* main.rs 926-989: the callback on every triple, in order
parse_all(document, i, st) ==
  IF i > Len(document) THEN st
  ELSE parse_all(document, i + 1, callback(st, document[i]))

RECURSIVE work_through_dependencies(_, _, _)
work_through_dependencies(deps, subjs, fuel) ==
  IF DOMAIN deps = {} \/ fuel = 0 THEN [subjects |-> subjs, dependencies |-> deps]
  ELSE LET after == work_through_dependencies_pass(deps, subjs)
       IN work_through_dependencies(after.dependencies, after.subjects, fuel - 1)

\* main.rs 994-995: the thick rows of one stanza; inlined is what the loop ends with
convert_inlined(inlined) ==
  [ok |-> DOMAIN inlined.dependencies = {},
   rows |-> IF DOMAIN inlined.dependencies = {}
            THEN subjects_to_thick_rows(annotate_reify(inlined.subjects))
            ELSE <<>>]

convert_stanza(built, fuel) ==
  convert_inlined(work_through_dependencies(built.dependencies, built.subjects, fuel))

RECURSIVE convert_stanzas(_, _, _, _)
\* main.rs 993-996: the stanzas in the order of the BTreeMap
convert_stanzas(by_stanza, keys, fuel, done) ==
  IF keys = <<>> THEN done
  ELSE LET converted == convert_stanza(thin_rows_to_subjects(by_stanza[Head(keys)]), fuel)
       IN convert_stanzas(by_stanza, Tail(keys), fuel,
                          [ok |-> done.ok /\ converted.ok,
                           rows |-> done.rows \o converted.rows])

\* the thin rows by stanza at the end of the input
thin_rows_of(document) ==
  parse_all(document, 1, [stack |-> <<>>, stanza |-> "",
                          thin_rows_by_stanza |-> EmptyMap]).thin_rows_by_stanza

\* the rows of `statements` after a run on the document
statements_of(document) ==
  rows_to_insert(convert_stanzas(thin_rows_of(document), Keys(thin_rows_of(document)),
                                 MaxPasses, [ok |-> TRUE, rows |-> <<>>]).rows)

----------------------------------------------------------------------------
(* thin_rows_to_subjects and what follows it, on arbitrary thin rows of    *)
(* one stanza: a free row, alone or next to a second row                   *)

FreeRows ==
  { <<Some("ex:S"), Some("ex:S"), Some("ex:p"), object, value, datatype, language>> :
      object \in {None, Some(""), Some("ex:O"), Some("_:b")},
      value \in {None, Some(""), Some("v")},
      datatype \in {None, Some("xsd:int")},
      language \in {None, Some("en")} }

SecondRows ==
  { <<Some("ex:S"), Some("_:b"), Some("ex:q"), None, Some("w"), None, None>>,
    <<Some("ex:S"), Some("ex:S"), Some("ex:q"), None, Some("w"), Some("xsd:int"),
      Some("en")>> }

InitRows ==
  /\ args \in {<<"rdftab", "t.db">>, <<"rdftab", "-r", "t.db">>}
  /\ round_trip = (Len(args) = 3)
  /\ doc = <<>>
  /\ pos = 0
  /\ pc = "converting"
  /\ exit_code = None
  /\ error = ""
  /\ stack = <<>>
  /\ stanza = ""
  /\ thin_rows_by_stanza \in
       {MapPut(EmptyMap, "ex:S", rows) :
          rows \in {<<r>> : r \in FreeRows}
                   \cup {<<r, r2>> : r \in FreeRows, r2 \in SecondRows}}
  /\ todo = <<"ex:S">>
  /\ subjects = EmptyMap
  /\ dependencies = EmptyMap
  /\ passes = 0
  /\ thick_rows = <<>>
  /\ tx = <<>>
  /\ table = <<>>
  /\ stdout = <<>>
  /\ triples = <<>>
  /\ B_ID = 0
  /\ stanza_of_row = <<>>

NextRows ==
  \/ StartStanza
  \/ Pass
  \/ FinishStanza
  \/ StartInserting
  \/ InsertRow
  \/ Commit
  \/ RoundTrip

SpecRows == InitRows /\ [][NextRows]_vars

----------------------------------------------------------------------------
(* Properties *)

\* C5: every thick row, and every row inserted for it, has exactly one of
\* object / value, has datatype and language only next to value, and never both
ThickRowsWellFormed ==
  /\ \A i \in 1..Len(thick_rows) :
       /\ Has(thick_rows[i], "object") # Has(thick_rows[i], "value")
       /\ (Has(thick_rows[i], "datatype") \/ Has(thick_rows[i], "language"))
            => Has(thick_rows[i], "value")
       /\ ~(Has(thick_rows[i], "datatype") /\ Has(thick_rows[i], "language"))
  /\ \A i \in 1..Len(tx) :
       /\ (tx[i][3] # None) # (tx[i][4] # None)
       /\ (tx[i][5] # None \/ tx[i][6] # None) => tx[i][4] # None
       /\ ~(tx[i][5] # None /\ tx[i][6] # None)

\* a stanza with a row that sets both object and value and a row that sets both
\* datatype and language has been converted and inserted
ThickRowsWellFormedWitness ==
  /\ pc = "inserting"
  /\ Len(tx) = Len(thick_rows)
  /\ \E k \in DOMAIN thin_rows_by_stanza :
       /\ \E i \in 1..Len(thin_rows_by_stanza[k]) :
            /\ get_cell_contents(thin_rows_by_stanza[k][i][4]) # ""
            /\ get_cell_contents(thin_rows_by_stanza[k][i][5]) # ""
       /\ \E i \in 1..Len(thin_rows_by_stanza[k]) :
            /\ get_cell_contents(thin_rows_by_stanza[k][i][4]) = ""
            /\ get_cell_contents(thin_rows_by_stanza[k][i][6]) # ""
            /\ get_cell_contents(thin_rows_by_stanza[k][i][7]) # ""

\* the subject cell of a row made from a sentinel triple
SentinelSubject == shorten(prefixes, stanza_end.iri)

RECURSIVE CountThinRows(_, _)
CountThinRows(by_stanza, keys) ==
  IF keys = <<>> THEN 0
  ELSE Len(by_stanza[Head(keys)]) + CountThinRows(by_stanza, Tail(keys))

\* C6: a sentinel triple is never buffered and never becomes a row: the
\* buffered and the thin rows are exactly the other triples delivered, and no
\* buffered, thin, thick or inserted row has the sentinel as its subject
SentinelOnlyFlushes ==
  /\ Len(stack) + CountThinRows(thin_rows_by_stanza, Keys(thin_rows_by_stanza))
       = Cardinality({i \in 1..pos : doc[i].subject # stanza_end})
  /\ \A i \in 1..Len(stack) : stack[i][1] # Some(SentinelSubject)
  /\ \A k \in DOMAIN thin_rows_by_stanza : \A i \in 1..Len(thin_rows_by_stanza[k]) :
       thin_rows_by_stanza[k][i][2] # Some(SentinelSubject)
  /\ \A i \in 1..Len(thick_rows) : thick_rows[i]["subject"] # JString(SentinelSubject)
  /\ \A i \in 1..Len(tx) : tx[i][1] # Some(SentinelSubject)
  /\ \A i \in 1..Len(table) : table[i][1] # Some(SentinelSubject)

\* a triple, its flush, and a second sentinel on the empty buffer have been delivered
SentinelOnlyFlushesWitness ==
  /\ pc = "parsing"
  /\ pos >= 3
  /\ doc[pos].subject = stanza_end
  /\ doc[pos - 1].subject = stanza_end
  /\ doc[pos - 2].subject # stanza_end
  /\ stack = <<>>

\* C7: the rows of a run become visible in `statements` all at once, after
\* the last thick row of the last stanza is inserted, and not at all when the
\* run fails
AllOrNothing ==
  /\ pc = "inserting" => table = <<>>
  /\ error # "" => table = <<>>
  /\ table # <<>> => /\ table = rows_to_insert(thick_rows)
                     /\ todo = <<>>
                     /\ pc \in {"round_trip", "exited"}
  /\ pc = "exited" => tx = <<>>

\* some but not all rows of a run are inserted in the open transaction
AllOrNothingWitness ==
  /\ pc = "inserting"
  /\ Len(tx) >= 1
  /\ Len(tx) < Len(thick_rows)
  /\ table = <<>>

\* C8: the process exits with status 1 on every error, and with status 0 on
\* success and on -h / --help
ExitsOneOnEveryError ==
  pc = "exited" => exit_code = (IF error = "" THEN Some(0) ELSE Some(1))

\* the blank nodes that the blank nodes of S depend on, directly or not
RECURSIVE Closure(_, _)
Closure(deps, S) ==
  LET next == S \cup UNION {deps[x] : x \in S \cap DOMAIN deps}
  IN IF next = S THEN S ELSE Closure(deps, next)

HasCycle(deps) == \E s \in DOMAIN deps : s \in Closure(deps, deps[s])

\* C9: a pass that leaves the dependencies of a stanza with a blank-node
\* cycle unchanged is detected: the run aborts with CycleDetected
CycleIsDetected ==
  [][(Pass /\ HasCycle(dependencies) /\ dependencies' = dependencies)
       => (pc' = "exited" /\ error' = "CycleDetected")]_vars

\* the places [s, p, i] of a subject map whose object names a blank node that
\* is no subject of the map
UnboundRefs(subjs) ==
  {r \in UNION {UNION {{[s |-> s, p |-> p, i |-> i] : i \in 1..Len(subjs[s].v[p].v)} :
                         p \in DOMAIN subjs[s].v} : s \in DOMAIN subjs} :
     /\ HasKey(subjs[r.s].v[r.p].v[r.i], "object")
     /\ IsString(subjs[r.s].v[r.p].v[r.i].v["object"])
     /\ StartsWith(subjs[r.s].v[r.p].v[r.i].v["object"].v, "_:")
     /\ subjs[r.s].v[r.p].v[r.i].v["object"].v \notin DOMAIN subjs}

\* C10: a pass of the inliner replaces every reference to a blank node that
\* is no subject of the stanza by an empty nested map, and leaves no
\* dependency on such a node, so that the loop can end
UnboundInlinedAsEmpty ==
  [][Pass =>
       /\ \A r \in UnboundRefs(subjects) :
            r.s \in DOMAIN subjects'
              => \E i \in 1..Len(subjects'[r.s].v[r.p].v) :
                   subjects'[r.s].v[r.p].v[i] = JObject([object |-> JObject(EmptyMap)])
       /\ \A s \in DOMAIN dependencies' : dependencies'[s] \subseteq DOMAIN subjects]_vars

\* where in the document the named subject X is first delivered (0: nowhere)
FirstAppearance(X) ==
  LET at == {i \in 1..Len(doc) : /\ doc[i].subject.kind = "NamedNode"
                                 /\ shorten(prefixes, doc[i].subject.iri) = X}
  IN IF at = {} THEN 0 ELSE CHOOSE i \in at : \A j \in at : i <= j

\* C3: the rows of a stanza whose root subject first appears earlier in the
\* input are inserted before the rows of a stanza whose root subject first
\* appears later
StanzasInInputOrder ==
  \A i, j \in 1..Len(tx \o table) :
    ( /\ stanza_of_row[i] # stanza_of_row[j]
      /\ FirstAppearance(stanza_of_row[i]) > 0
      /\ FirstAppearance(stanza_of_row[i]) < FirstAppearance(stanza_of_row[j]) )
    => i < j

\* the number of the stanza that position i of a document belongs to
StanzaIndex(d, i) == Cardinality({j \in 1..(i - 1) : d[j].subject = stanza_end})

\* two documents whose sentinel-delimited stanzas hold the same triples
SameStanzas(d1, d2) ==
  /\ Len(d1) = Len(d2)
  /\ \A t \in Range(d1) \cup Range(d2) : \A k \in 0..Len(d1) :
       Cardinality({i \in 1..Len(d1) : d1[i] = t /\ StanzaIndex(d1, i) = k})
         = Cardinality({i \in 1..Len(d2) : d2[i] = t /\ StanzaIndex(d2, i) = k})

\* C4: a run inserts the rows that a run on any reordering of its document
\* inserts, in the same order
OrderIndependent ==
  (pc = "exited" /\ exit_code = Some(0))
    => \A d \in Documents : SameStanzas(doc, d) => statements_of(d) = table

\* the blank subjects of the document that annotate or reify the statement
\* of a thick row
Overlays ==
  { [subject |-> "http://www.w3.org/2002/07/owl#annotatedSource",
     predicate |-> "http://www.w3.org/2002/07/owl#annotatedProperty",
     object |-> "http://www.w3.org/2002/07/owl#annotatedTarget"],
    [subject |-> "http://www.w3.org/1999/02/22-rdf-syntax-ns#subject",
     predicate |-> "http://www.w3.org/1999/02/22-rdf-syntax-ns#predicate",
     object |-> "http://www.w3.org/1999/02/22-rdf-syntax-ns#object"] }

AnnotatingSubjects(row) ==
  {"_:" \o a.id : a \in
     {b \in {doc[i].subject : i \in 1..Len(doc)} :
        /\ b.kind = "BlankNode"
        /\ \E o \in Overlays : \E t1, t2, t3 \in Range(doc) :
             /\ t1.subject = b /\ t2.subject = b /\ t3.subject = b
             /\ t1.predicate.iri = o.subject /\ t2.predicate.iri = o.predicate
             /\ t3.predicate.iri = o.object
             /\ row_of_triple(t1)[3] = Some(row["subject"].v)
             /\ row_of_triple(t2)[3] = Some(row["predicate"].v)
             /\ \/ Has(row, "object") /\ row_of_triple(t3)[3] = Some(row["object"].v)
                \/ Has(row, "value") /\ row_of_triple(t3)[4] = Some(row["value"].v)}}

\* C2: the row inserted for a statement with a collapsed overlay holds in its
\* object cell the JSON structure of the target and the overlay map, and no
\* row is inserted for the annotating subject
AnnotationsStored ==
  \A i \in 1..Len(table) :
    (Has(thick_rows[i], "annotations") \/ Has(thick_rows[i], "metadata"))
      => /\ table[i][3] # None
         /\ from_str(table[i][3][1]).ok
         /\ from_str(table[i][3][1]).val
              = JObject([k \in DOMAIN thick_rows[i] \ {"subject", "predicate"} |->
                           thick_rows[i][k]])
         /\ \A j \in 1..Len(table) :
              \A a \in AnnotatingSubjects(thick_rows[i]) : table[j][1] # Some(a)

\* How a reader of the printed triples reads a term: <iri>, prefix:local,
\* _:id, and a literal in one or three double quotes with @language or
\* ^^datatype behind it.
Unreadable(s) == [kind |-> "Unreadable", text |-> s]

read_iri(s) ==
  IF StartsWith(s, "<") /\ EndsWith(s, ">") THEN NamedNode(SubSeq(s, 2, Len(s) - 1))
  ELSE LET v == Split(s, ":")
           hits == {i \in 1..Len(prefixes) : Len(v) = 2 /\ prefixes[i].prefix = v[1]}
       IN IF hits = {} THEN Unreadable(s)
          ELSE NamedNode(prefixes[CHOOSE h \in hits : TRUE].base \o v[2])

read_tagged(s, value, rest) ==
  IF rest = "" THEN Simple(value)
  ELSE IF StartsWith(rest, "@") THEN LanguageTaggedString(value, DropFirst(rest, 1))
  ELSE IF StartsWith(rest, "^^") /\ read_iri(DropFirst(rest, 2)).kind = "NamedNode"
  THEN Typed(value, read_iri(DropFirst(rest, 2)).iri)
  ELSE Unreadable(s)

\* the last place at which p occurs in s (0: nowhere)
LastIndexOf(s, p) ==
  LET at == {i \in 1..(Len(s) - Len(p) + 1) : SubSeq(s, i, i + Len(p) - 1) = p}
  IN IF at = {} THEN 0 ELSE CHOOSE i \in at : \A j \in at : j <= i

read_long_literal(s, close) ==
  IF close < 4 THEN Unreadable(s)
  ELSE read_tagged(s, SubSeq(s, 4, close - 1), DropFirst(s, close + 2))

read_short_literal(s, r) ==
  IF r.ok THEN read_tagged(s, r.val.v, DropFirst(s, r.next - 1)) ELSE Unreadable(s)

read_term(s) ==
  IF StartsWith(s, "_:") THEN BlankNode(DropFirst(s, 2))
  ELSE IF StartsWith(s, "\"\"\"") THEN read_long_literal(s, LastIndexOf(s, "\"\"\""))
  ELSE IF StartsWith(s, "\"") THEN read_short_literal(s, parse_str(s, 2, ""))
  ELSE read_iri(s)

read_triple(j) ==
  Triple(read_term(j.v["subject"].v), read_term(j.v["predicate"].v),
         read_term(j.v["object"].v))

BagOf(ts) == [x \in Range(ts) |-> Cardinality({i \in DOMAIN ts : ts[i] = x})]

BlankIds(ts) ==
  {ts[i].subject.id : i \in {j \in DOMAIN ts : ts[j].subject.kind = "BlankNode"}}
  \cup {ts[i].object.id : i \in {j \in DOMAIN ts : ts[j].object.kind = "BlankNode"}}

Renamed(f, n) == IF n.kind = "BlankNode" THEN BlankNode(f[n.id]) ELSE n

\* two lists of triples that are the same multiset under a bijective
\* renaming of the blank nodes of the first
SameUpToBlankNodes(a, b) ==
  \E f \in [BlankIds(a) -> BlankIds(b)] :
    /\ \A y \in BlankIds(b) : \E x \in BlankIds(a) : f[x] = y
    /\ \A x, y \in BlankIds(a) : f[x] = f[y] => x = y
    /\ BagOf([i \in DOMAIN a |->
               Triple(Renamed(f, a[i].subject), a[i].predicate, Renamed(f, a[i].object))])
         = BagOf(b)

NotSentinel(t) == t.subject # stanza_end

\* C1: the triples of the round trip are, up to the names of blank nodes,
\* the multiset of the triples delivered, when every stanza was closed
RoundTripLossless ==
  (pc = "exited" /\ round_trip /\ exit_code = Some(0) /\ stack = <<>>)
    => SameUpToBlankNodes([i \in 1..Len(triples) |-> read_triple(triples[i])],
                          SelectSeq(doc, NotSentinel))

----------------------------------------------------------------------------
(* The BlankInliner on a stanza *)

\* the blank nodes that the rows of a stanza refer to
Referenced(rows) ==
  {get_cell_contents(rows[i][4]) :
     i \in {j \in 1..Len(rows) : StartsWith(get_cell_contents(rows[j][4]), "_:")}}

\* a stanza whose blank-node references are acyclic and refer to subjects of
\* the stanza only
AcyclicAndBound(rows) ==
  /\ Referenced(rows) \subseteq DOMAIN thin_rows_to_subjects(rows).subjects
  /\ ~HasCycle(thin_rows_to_subjects(rows).dependencies)

\* a place of a JSON structure holds an Object whose object is a blank-node id
RECURSIVE HasBlankRef(_)
HasBlankRef(j) ==
  IF IsObject(j)
  THEN \/ Has(j.v, "object") /\ IsString(j.v["object"]) /\ StartsWith(j.v["object"].v, "_:")
       \/ \E k \in DOMAIN j.v : HasBlankRef(j.v[k])
  ELSE IF IsArray(j) THEN \E i \in 1..Len(j.v) : HasBlankRef(j.v[i])
  ELSE FALSE

\* the predicate map of a subject with every blank node it refers to nested
\* in the place of the reference, at every depth
RECURSIVE Nested(_, _)
Nested(rows, s) ==
  LET preds == predicates_of(rows, s, 1, EmptyMap)
      nest(obj) == IF HasKey(obj, "object") /\ StartsWith(obj.v["object"].v, "_:")
                   THEN JObject([object |-> Nested(rows, obj.v["object"].v)])
                   ELSE obj
  IN JObject([p \in DOMAIN preds |->
                JArray(sort_by_to_string([i \in 1..Len(preds[p].v) |-> nest(preds[p].v[i])]))])

----------------------------------------------------------------------------
(* The OverlayCollapser on the subject map the inliner ends with *)

\* the two overlay forms: the key of the attached map and the overlay predicates
OverlayForms ==
  { [kind |-> "annotations", subject |-> "owl:annotatedSource",
     predicate |-> "owl:annotatedProperty", object |-> "owl:annotatedTarget"],
    [kind |-> "metadata", subject |-> "rdf:subject",
     predicate |-> "rdf:predicate", object |-> "rdf:object"] }

\* the subject map of the stanza at hand is what annotate_reify is called with
Collapsing == pc = "inlining" /\ DOMAIN dependencies = {}

\* annotate_reify before it removes the marked subjects
Collapse(subjs) ==
  annotate_reify_from(Keys(subjs), subjs, [compressed_subjects |-> EmptyMap, remove |-> {}])

\* subject a carries the three predicates of form f
Carries(subjs, a, f) == {f.subject, f.predicate, f.object} \subseteq DOMAIN subjs[a].v

\* the Object O of an overlay: the first object of its target predicate
OverlayTarget(subjs, a, f) == subjs[a].v[f.object].v[1]

\* an Object without the maps attached to it
Bare(obj) == JObject([k \in DOMAIN obj.v \ {"annotations", "metadata"} |-> obj.v[k]])

\* the list SubjectMap[S][P] of the overlay that a carries in form f (empty
\* when S or P is absent)
TargetList(subjs, among, a, f) ==
  LET S == overlay_text(subjs[a].v, f.subject)
      P == overlay_text(subjs[a].v, f.predicate)
  IN IF Has(among, S) /\ HasKey(among[S], P) /\ IsArray(among[S].v[P])
     THEN among[S].v[P].v ELSE <<>>

\* a carries form f and SubjectMap[S][P] holds an Object equal to O
Matched(subjs, a, f) ==
  /\ Carries(subjs, a, f)
  /\ \E i \in 1..Len(TargetList(subjs, subjs, a, f)) :
       TargetList(subjs, subjs, a, f)[i] = OverlayTarget(subjs, a, f)

\* the predicates of a other than the overlay predicates of form f and rdf:type
Remaining(subjs, a, f) ==
  JObject([k \in DOMAIN subjs[a].v \ {f.subject, f.predicate, f.object, "rdf:type"} |->
             subjs[a].v[k]])

\* C12: when a subject a carries an overlay (S, P, O) and SubjectMap[S][P]
\* holds an Object equal to O, annotate_reify attaches to that Object, under
\* annotations (OWL form) or metadata (reification form), exactly the
\* predicates of a other than the three overlay predicates and rdf:type; a is
\* absent from the result, and no subject is removed before all are evaluated
OverlayCollapsed ==
  Collapsing =>
    /\ DOMAIN subjects \subseteq DOMAIN Collapse(subjects).compressed_subjects
    /\ \A a \in DOMAIN subjects : \A f \in OverlayForms :
         Matched(subjects, a, f)
           => /\ a \in Collapse(subjects).remove
              /\ a \notin DOMAIN annotate_reify(subjects)
              /\ \E i \in 1..Len(TargetList(subjects, Collapse(subjects).compressed_subjects, a, f)) :
                   LET o == TargetList(subjects, Collapse(subjects).compressed_subjects, a, f)[i]
                   IN /\ Bare(o) = OverlayTarget(subjects, a, f)
                      /\ HasKey(o, f.kind)
                      /\ o.v[f.kind] = Remaining(subjects, a, f)

\* a carries form f and SubjectMap[S][P] holds no Object equal to O
Orphaned(subjs, a, f) == Carries(subjs, a, f) /\ ~Matched(subjs, a, f)

\* C13: an orphaned overlay is left intact: its subject stays in the result
\* with all of its predicates, overlay predicates and rdf:type included, and
\* when every overlay of the subject map is orphaned no subject is added,
\* removed or changed
OrphanLeftIntact ==
  Collapsing =>
    /\ \A a \in DOMAIN subjects :
         (/\ \E f \in OverlayForms : Orphaned(subjects, a, f)
          /\ \A f \in OverlayForms : ~Matched(subjects, a, f))
           => /\ a \in DOMAIN annotate_reify(subjects)
              /\ annotate_reify(subjects)[a] = subjects[a]
    /\ (\A a \in DOMAIN subjects : \A f \in OverlayForms : ~Matched(subjects, a, f))
         => annotate_reify(subjects) = subjects

\* every Object of the collapsed map `out` that carries a map of form f is,
\* as a whole, the O of a subject of subjs that carries f with that S and P
AttachedOnlyToEqual(subjs, out) ==
  \A S \in DOMAIN out : \A P \in DOMAIN out[S].v :
    IsArray(out[S].v[P]) =>
      \A i \in 1..Len(out[S].v[P].v) : \A f \in OverlayForms :
        HasKey(out[S].v[P].v[i], f.kind) =>
          \E a \in DOMAIN subjs :
            /\ Carries(subjs, a, f)
            /\ overlay_text(subjs[a].v, f.subject) = S
            /\ overlay_text(subjs[a].v, f.predicate) = P
            /\ OverlayTarget(subjs, a, f) = Bare(out[S].v[P].v[i])

\* C14: the overlay data is attached only to an Object of SubjectMap[S][P]
\* that equals O as a whole: the same node, or the same value with the same
\* datatype and language
TargetMatchedByEquality ==
  Collapsing => AttachedOnlyToEqual(subjects, annotate_reify(subjects))

----------------------------------------------------------------------------
(* The Subjectifier on the thin rows of a stanza *)

\* the rows of a stanza whose object and value are not both empty
NotEmptyRows(rows) ==
  {i \in 1..Len(rows) :
     get_cell_contents(rows[i][4]) # "" \/ get_cell_contents(rows[i][5]) # ""}

\* the places [s, p, i] of the Objects of a subject map
Objects(subjs) ==
  UNION {UNION {{[s |-> s, p |-> p, i |-> i] : i \in 1..Len(subjs[s].v[p].v)} :
                  p \in DOMAIN subjs[s].v} : s \in DOMAIN subjs}

\* C15: a thin row whose object and value are both empty is dropped:
\* thin_rows_to_subjects adds an Object for every other row and none for it,
\* and no thick row is produced or inserted for it
EmptyRowDropped ==
  /\ (pc = "inlining" /\ passes = 0)
       => Cardinality(Objects(subjects))
            = Cardinality(NotEmptyRows(thin_rows_by_stanza[Head(todo)]))
  /\ \A k \in DOMAIN thin_rows_by_stanza :
       /\ Len(thick_rows) <= Cardinality(NotEmptyRows(thin_rows_by_stanza[k]))
       /\ Len(tx) <= Cardinality(NotEmptyRows(thin_rows_by_stanza[k]))

\* every predicate's Object list of a subject map is in ascending order of
\* the serialized strings of its elements
Sorted(subjs) ==
  \A s \in DOMAIN subjs : \A p \in DOMAIN subjs[s].v :
    IsArray(subjs[s].v[p]) =>
      \A i, j \in 1..Len(subjs[s].v[p].v) :
        i < j => ~StrLess(to_string(subjs[s].v[p].v[j]), to_string(subjs[s].v[p].v[i]))

\* C16: the Object lists are in canonical order after the Subjectifier,
\* after every pass of the BlankInliner, and after the OverlayCollapser has
\* attached annotations / metadata
ListsStaySorted ==
  /\ pc = "inlining" => Sorted(subjects)
  /\ Collapsing => Sorted(annotate_reify(subjects))

----------------------------------------------------------------------------
(* The StanzaAssembler *)

\* the positions of the triples delivered since the last sentinel
Buffered ==
  {i \in 1..pos : \A j \in i..pos : doc[j].subject # stanza_end}

\* the buffered triples with a named subject, and those that name a stanza
\* by their overlay source
NamedSubjects == {i \in Buffered : doc[i].subject.kind = "NamedNode"}

OverlaySources ==
  {i \in Buffered : /\ doc[i].predicate \in {annotated_source, rdf_subject}
                    /\ doc[i].object.kind = "NamedNode"}

\* C18: the stanza id is the subject of the last buffered triple with a
\* named subject, if there is one; otherwise the object of the first
\* buffered triple whose predicate is owl:annotatedSource or rdf:subject and
\* whose object is named; otherwise it is empty
StanzaIdAtFlush ==
  pc = "parsing" =>
    stanza = (IF NamedSubjects # {}
              THEN shorten(prefixes,
                           doc[CHOOSE i \in NamedSubjects : \A j \in NamedSubjects : j <= i].subject.iri)
              ELSE IF OverlaySources # {}
              THEN shorten(prefixes,
                           doc[CHOOSE i \in OverlaySources : \A j \in OverlaySources : i <= j].object.iri)
              ELSE "")

\* a sentinel arrives on a buffer in which an overlay source comes before a
\* named subject and another overlay source after it
StanzaIdAtFlushWitness ==
  /\ pc = "parsing"
  /\ pos < Len(doc)
  /\ doc[pos + 1].subject = stanza_end
  /\ \E i \in OverlaySources : \E j \in NamedSubjects : \E k \in OverlaySources :
       /\ i < j /\ j < k
       /\ stanza = shorten(prefixes, doc[j].subject.iri)


\* C19: at a sentinel the buffered rows are appended once each, in arrival
\* order, to the rows stored for the stanza id, every one with the same stanza
\* value (the stanza id, or the first buffered row's predicate when the id is
\* empty); afterwards the buffer and the stanza id are empty
FlushStep ==
  [][(/\ pc = "parsing"
      /\ pos < Len(doc)
      /\ pos' = pos + 1
      /\ doc[pos + 1].subject = stanza_end)
     => LET name == IF stanza # "" THEN stanza
                   ELSE IF stack # <<>> THEN stack[1][2][1] ELSE ""
            before == IF Has(thin_rows_by_stanza, stanza)
                      THEN thin_rows_by_stanza[stanza] ELSE <<>>
            after == thin_rows_by_stanza'[stanza]
        IN /\ DOMAIN thin_rows_by_stanza' = DOMAIN thin_rows_by_stanza \cup {stanza}
           /\ \A k \in DOMAIN thin_rows_by_stanza \ {stanza} :
                thin_rows_by_stanza'[k] = thin_rows_by_stanza[k]
           /\ Len(after) = Len(before) + Len(stack)
           /\ \A i \in 1..Len(before) : after[i] = before[i]
           /\ \A i \in 1..Len(stack) : after[Len(before) + i] = <<Some(name)>> \o stack[i]
           /\ stack' = <<>>
           /\ stanza' = ""]_vars

\* a stanza with no id and two rows of different predicates has been flushed:
\* the second row carries the predicate of the first
FlushStepWitness ==
  /\ pc = "parsing"
  /\ pos >= 3
  /\ doc[pos].subject = stanza_end
  /\ doc[pos - 1].subject # stanza_end
  /\ doc[pos - 2].subject # stanza_end
  /\ stack = <<>>
  /\ stanza = ""
  /\ Has(thin_rows_by_stanza, "")
  /\ LET rows == thin_rows_by_stanza[""]
         n == Len(rows)
     IN /\ n >= 2
        /\ rows[n][3] = row_of_triple(doc[pos - 1])[2]
        /\ rows[n][3] # rows[n - 1][3]
        /\ rows[n][1] = rows[n - 1][3]
        /\ rows[n - 1][1] = rows[n - 1][3]


----------------------------------------------------------------------------
(* The blank nodes of the re-expansion *)

\* the ids the re-expansion makes, and the predicates emitted under one
IsCounterId(node) == StartsWith(node, "_:myb")

PredicatesUnder(id) ==
  {triples[i].v["predicate"].v : i \in {j \in 1..Len(triples) : triples[j].v["subject"].v = id}}

ObjectsOf(id, predicates) ==
  {triples[i].v["object"].v :
     i \in {j \in 1..Len(triples) : /\ triples[j].v["subject"].v = id
                                    /\ triples[j].v["predicate"].v \in predicates}}

Expanded(names) == {create_node(prefixes, JString(n)).v : n \in names}

\* C20: the counter gives each nested map of a run an id of its own, every
\* triple that refers to a nested map uses an id under which triples were
\* emitted, and an overlay on a nested target refers to a node that carries
\* the map of the object of the triple it annotates
BlankIdsConsistent ==
  (pc = "exited" /\ triples # <<>>) =>
    /\ {triples[i].v["subject"].v : i \in 1..Len(triples)} \cap
         {"_:myb" \o ToString(n) : n \in 0..(B_ID + Len(triples))}
       = {"_:myb" \o ToString(n) : n \in 1..B_ID}
    /\ \A i \in 1..Len(triples) :
         IsCounterId(triples[i].v["object"].v)
           => PredicatesUnder(triples[i].v["object"].v) # {}
    /\ \A i \in 1..Len(triples) :
         (/\ triples[i].v["predicate"].v \in Expanded({"owl:annotatedTarget", "rdf:object"})
          /\ IsCounterId(triples[i].v["subject"].v)
          /\ IsCounterId(triples[i].v["object"].v))
           => \E j \in 1..Len(triples) :
                /\ triples[j].v["subject"].v
                     \in ObjectsOf(triples[i].v["subject"].v,
                                   Expanded({"owl:annotatedSource", "rdf:subject"}))
                /\ triples[j].v["predicate"].v
                     \in ObjectsOf(triples[i].v["subject"].v,
                                   Expanded({"owl:annotatedProperty", "rdf:predicate"}))
                /\ IsCounterId(triples[j].v["object"].v)
                /\ PredicatesUnder(triples[j].v["object"].v)
                     = PredicatesUnder(triples[i].v["object"].v)


----------------------------------------------------------------------------
(* shorten on the IRIs of delivered triples *)

\* IRIs below, at, and beyond the bases of the prefix table
IriInputs ==
  { "http://example.com/A",
    "http://example.com/",
    "http://example.com/o/B",
    "http://example.com/o/",
    "http://example.com/http://example.com/C",
    "http://example.co",
    "urn:x",
    "http://www.w3.org/2002/07/owl#Class" }

ShortenDocuments ==
  { << Triple(NamedNode(s), NamedNode(p), BlankNode("b")),
       Triple(BlankNode("b"), ex("q"), NamedNode(o)), End >> :
      s \in IriInputs,
      p \in {"http://example.com/p", "http://example.com/o/p", "urn:p"},
      o \in IriInputs }

\* insert has opened the database and begins to parse
InitShorten ==
  /\ args = <<"rdftab", "t.db">>
  /\ doc \in ShortenDocuments
  /\ pos = 0
  /\ pc = "parsing"
  /\ round_trip = FALSE
  /\ exit_code = None
  /\ error = ""
  /\ stack = <<>>
  /\ stanza = ""
  /\ thin_rows_by_stanza = EmptyMap
  /\ todo = <<>>
  /\ subjects = EmptyMap
  /\ dependencies = EmptyMap
  /\ passes = 0
  /\ thick_rows = <<>>
  /\ tx = <<>>
  /\ table = <<>>
  /\ stdout = <<>>
  /\ triples = <<>>
  /\ B_ID = 0
  /\ stanza_of_row = <<>>

NextShorten ==
  \/ Callback
  \/ EndOfInput
  \/ StartStanza
  \/ Pass
  \/ FinishStanza
  \/ StartInserting
  \/ InsertRow
  \/ Commit

SpecShorten == InitShorten /\ [][NextShorten]_vars

\* the bases of the table that are strict prefixes of an IRI
StrictBases(iri) ==
  {i \in 1..Len(PrefixTable) :
     StartsWith(iri, PrefixTable[i].base) /\ iri # PrefixTable[i].base}

\* prefix:local for the longest such base, <iri> when there is none
Shortened(iri) ==
  IF StrictBases(iri) = {} THEN "<" \o iri \o ">"
  ELSE LET b == PrefixTable[CHOOSE i \in StrictBases(iri) : \A j \in StrictBases(iri) :
                                Len(PrefixTable[j].base) <= Len(PrefixTable[i].base)]
       IN b.prefix \o ":" \o DropFirst(iri, Len(b.base))

\* C21: a buffered row holds, for each IRI of its triple, prefix:local for the
\* longest base of the prefix table that is a strict prefix of the IRI, with
\* only the leading occurrence of the base replaced, and <iri> when no base
\* is a strict prefix of it
ShortenByLongestStrictBase ==
  (pc = "parsing" /\ Len(stack) <= pos) =>
    \A k \in 1..Len(stack) :
      LET t == doc[pos - Len(stack) + k] IN
        /\ t.subject.kind = "NamedNode" => stack[k][1] = Some(Shortened(t.subject.iri))
        /\ stack[k][2] = Some(Shortened(t.predicate.iri))
        /\ t.object.kind = "NamedNode" => stack[k][3] = Some(Shortened(t.object.iri))


----------------------------------------------------------------------------
(* Which delivered triples become thin rows *)

\* the delivered triples, other than sentinels, that a delivered sentinel follows
Flushed ==
  {i \in 1..pos : /\ doc[i].subject # stanza_end
                  /\ \E j \in (i + 1)..pos : doc[j].subject = stanza_end}

\* the places of the thin rows: <<stanza id, index>>
ThinPlaces ==
  UNION {{<<k, i>> : i \in 1..Len(thin_rows_by_stanza[k])} : k \in DOMAIN thin_rows_by_stanza}

\* C22: a delivered triple that is not a sentinel is a thin row if and only
\* if a sentinel has been delivered after it; the triples still buffered when
\* the input ends never become rows, and without a flushed triple nothing is
\* converted or inserted
FlushedIffSentinelFollows ==
  /\ \A p \in ThinPlaces :
       Tail(thin_rows_by_stanza[p[1]][p[2]]) \in {row_of_triple(doc[i]) : i \in Flushed}
  /\ \A r \in {row_of_triple(doc[i]) : i \in 1..pos} :
       Cardinality({p \in ThinPlaces : Tail(thin_rows_by_stanza[p[1]][p[2]]) = r})
         = Cardinality({i \in Flushed : row_of_triple(doc[i]) = r})
  /\ Flushed = {} => /\ thick_rows = <<>>
                     /\ tx = <<>>
                     /\ table = <<>>

\* a run has ended on an input whose first triple was flushed and whose last
\* triple was still buffered: the table has rows, the buffer kept the last triple
FlushedIffSentinelFollowsWitness ==
  /\ pc = "exited"
  /\ error = ""
  /\ pos = Len(doc)
  /\ pos >= 3
  /\ doc[pos].subject # stanza_end
  /\ pos \notin Flushed
  /\ 1 \in Flushed
  /\ row_of_triple(doc[pos]) \notin {row_of_triple(doc[i]) : i \in Flushed}
  /\ stack # <<>>
  /\ table # <<>>

=============================================================================
